---- MODULE Spec2Model ----
(***************************************************************************)
(* A model of Flask-Themes (src/flask_themes/__init__.py): the theme       *)
(* registry of a ThemeManager, the loaders that fill it from disk, the     *)
(* themed template loader, render_theme_template and the static route.    *)
(*                                                                         *)
(* Strings the code parses or builds (directory names, theme identifiers, *)
(* template names) are sequences of one-character strings; strings the    *)
(* code only compares or passes on (application identifiers, display      *)
(* names, file names) are TLA+ strings.                                   *)
(***************************************************************************)
EXTENDS Integers, Sequences, FiniteSets, TLC

VARIABLES
    fs,               \* the disk: search root -> its kind and directory listing
    app_templates,    \* the names in the application's own templates folder
    THEME_PATHS,      \* app.config['THEME_PATHS']: <<>> when unset, <<list>> for a
                      \* list, <<characters, "basestring">> for a string
    loaders,          \* ThemeManager.loaders
    USING_BLUEPRINTS, \* whether the host framework has blueprints
    _themes,          \* ThemeManager._themes: None or <<identifier -> Theme>>
    last,             \* the last call made and what it returned or raised
    nchanges,         \* number of changes made to the disk and the configuration
    nscans,           \* number of scans of the disk that have constructed themes
    app,              \* the Flask app: import_name, theme_manager, modules, globals
    manager,          \* the manager constructed last, whose fields _themes and
                      \* loaders are: None or <<[id, package, app_identifier]>>
    running           \* a refresh() under way in another thread than the calls:
                      \* None or <<[all, k, raised, before]>>

vars == <<fs, app_templates, THEME_PATHS, loaders, USING_BLUEPRINTS, _themes,
          last, nchanges, nscans, app, manager, running>>

----------------------------------------------------------------------------
(* Bounds *)

MaxChanges == 3

\* the explicit scans of the disk (refresh(), load_themes_from()) one behaviour makes
MaxScans == 2

\* managers constructed for the app
MaxManagers == 2

----------------------------------------------------------------------------
(* Strings *)

LowerCase == {"a","b","c","d","e","f","g","h","i","j","k","l","m",
              "n","o","p","q","r","s","t","u","v","w","x","y","z"}
UpperCase == {"A","B","C","D","E","F","G","H","I","J","K","L","M",
              "N","O","P","Q","R","S","T","U","V","W","X","Y","Z"}
Digits    == {"0","1","2","3","4","5","6","7","8","9"}

None == <<>>

\* the element of a singleton; The({e(x) : x \in {v}}) is e with x = v, with v
\* computed once
The(S) == CHOOSE x \in S : TRUE
Some(v) == <<v>>

\* s[n:]
DropFirst(s, n) == SubSeq(s, n + 1, Len(s))

\* s.startswith(p)
StartsWith(s, p) == Len(s) >= Len(p) /\ SubSeq(s, 1, Len(p)) = p

\* the index of the first c in s, 0 when there is none
FirstIndex(s, c) ==
    IF \E i \in 1..Len(s) : s[i] = c
    THEN CHOOSE i \in 1..Len(s) : s[i] = c /\ \A j \in 1..(i - 1) : s[j] # c
    ELSE 0

\* s.split('/', 1): one or two parts
Split1(s) ==
    LET i == FirstIndex(s, "/")
    IN  IF i = 0 THEN <<s>>
        ELSE <<SubSeq(s, 1, i - 1), SubSeq(s, i + 1, Len(s))>>

\* '_themes/%s/%s' % (theme, templatename)
ThemesPrefix == <<"_","t","h","e","m","e","s","/">>
Namespaced(theme, templatename) == ThemesPrefix \o theme \o <<"/">> \o templatename

\* IDENTIFIER.match(b) for IDENTIFIER = re.compile(r'^[a-zA-Z_][a-zA-Z0-9_]*$'):
\* Python's $ matches at the end of the string and also just before a newline
\* that ends the string.
IdentifierMatch(b) ==
    LET n    == Len(b)
        body == IF n >= 1 /\ b[n] = "\n" THEN SubSeq(b, 1, n - 1) ELSE b
    IN  /\ Len(body) >= 1
        /\ body[1] \in LowerCase \cup UpperCase \cup {"_"}
        /\ \A i \in 2..Len(body) :
              body[i] \in LowerCase \cup UpperCase \cup Digits \cup {"_"}

----------------------------------------------------------------------------
(* The disk *)

cool    == <<"c","o","o","l">>
plain   == <<"p","l","a","i","n">>
notthis == <<"n","o","t","t","h","i","s">>
coolNL  == <<"c","o","o","l","\n">>  \* a directory name ending in a newline
two_x   == <<"2","x">>               \* a directory name that is no identifier
noinfo   == <<"n","o","i","n","f","o">>
locked   == <<"l","o","c","k","e","d">>
garbled  == <<"g","a","r","b","l","e","d">>
noauthor == <<"n","o","a","u","t","h","o","r">>
readme   == <<"r","e","a","d","m","e">>
alias    == <<"a","l","i","a","s">>
aqua     == <<"a","q","u","a">>
fancy    == <<"f","a","n","c","y">>
lacking  == <<"l","a","c","k","i","n","g">>
Zen      == <<"Z","e","n">>

hello       == <<"h","e","l","l","o">>    \* a template that is plain text
static_html == <<"s","t","a","t","i","c">> \* a template that calls theme_static
other       == <<"o","t","h","e","r">>    \* a template nobody ships
page        == <<"p","a","g","e">>        \* a theme's page includes 'other'
static_parent == <<"s","t","a","t","i","c","_","p","a","r","e","n","t">>

\* the search roots: <app.root_path>/themes, and two other directories
ThemesDir == <<"t">>
MoreDir   == <<"m">>
ExtraDir  == <<"x">>
Roots     == {ThemesDir, MoreDir, ExtraDir}

\* info.json of a theme directory
InfoJson(n, a, i) ==
    [kind |-> "json",
     doc  |-> [name |-> n, application |-> a, identifier |-> i, author |-> "LeafStorm"]]
InfoNoAuthor(n, a, i) ==
    [kind |-> "json", doc |-> [name |-> n, application |-> a, identifier |-> i]]
\* an info.json with every optional key
InfoFull(n, a, i) ==
    [kind |-> "json",
     doc  |-> [name |-> n, application |-> a, identifier |-> i, author |-> "LeafStorm",
               description |-> "A theme", license |-> "BSD",
               license_url |-> "http://example.com/license",
               website |-> "http://example.com/", preview |-> "preview.png",
               doctype |-> "xhtml", options |-> [color |-> "blue"]]]
\* an info.json with the required keys and a doctype, but for one key
InfoWithout(n, a, i, key) ==
    [kind |-> "json",
     doc  |-> [k \in {"name", "application", "identifier", "author", "doctype"} \ {key}
                 |-> IF k = "name" THEN n
                     ELSE IF k = "application" THEN a
                     ELSE IF k = "identifier" THEN i
                     ELSE IF k = "author" THEN "LeafStorm"
                     ELSE "html4"]]
InfoMissing    == [kind |-> "missing",    doc |-> [none |-> TRUE]]
InfoUnreadable == [kind |-> "unreadable", doc |-> [none |-> TRUE]]
InfoUnparsable == [kind |-> "unparsable", doc |-> [none |-> TRUE]]

\* an entry of a search root: a sub-directory with its info.json, its
\* templates/ and its static/, or a regular file
Dir(info, templates, static) ==
    [isdir |-> TRUE, info |-> info, templates |-> templates, static |-> static]
RegularFile ==
    [isdir |-> FALSE, info |-> InfoMissing, templates |-> {}, static |-> {}]
Entry(name, node) == [name |-> name, node |-> node]

CoolV1  == Dir(InfoJson("Cool Blue v1", "testing", cool), {}, {"style.css"})
CoolV2  == Dir(InfoJson("Cool Blue v2", "testing", cool), {hello, static_html}, {"style.css"})
Plain   == Dir(InfoJson("Plain", "testing", plain), {static_html}, {"style.css"})
NotThis == Dir(InfoJson("Not This", "nottesting", notthis), {hello}, {"style.css"})
Foreign == Dir(InfoJson("Cool Red", "Testing", cool), {hello}, {"style.css"})
NoAuthor  == Dir(InfoNoAuthor("No Author", "testing", noauthor), {hello}, {})
Alias     == Dir(InfoJson("Cool Alias", "testing", cool), {hello}, {"style.css"})
Plain2    == Dir(InfoJson("Plain v2", "testing", plain), {hello}, {"style.css"})
NoInfo    == Dir(InfoMissing, {hello}, {})
Locked    == Dir(InfoUnreadable, {hello}, {})
Garbled   == Dir(InfoUnparsable, {hello}, {})
CoolNL    == Dir(InfoJson("Cool Newline", "testing", coolNL), {hello}, {})
TwoX      == Dir(InfoJson("Two X", "testing", two_x), {hello}, {})
Aqua      == Dir(InfoJson("Aqua", "testing", aqua), {hello}, {})
ZenTheme  == Dir(InfoJson("Zen", "testing", Zen), {hello}, {})
Paged     == Dir(InfoJson("Cool Pages", "testing", cool), {hello, page}, {"style.css"})
Fancy     == Dir(InfoFull("Fancy", "testing", fancy), {hello}, {"style.css"})
Lacking(key) == Dir(InfoWithout("Lacking", "testing", lacking, key), {hello}, {})

RootDir(entries) == [kind |-> "dir", entries |-> entries]
RootAbsent       == [kind |-> "absent", entries |-> <<>>]
RootFile         == [kind |-> "file", entries |-> <<>>]

\* the position of the entry called name in a listing, 0 when there is none
IndexOf(entries, name) ==
    IF \E i \in 1..Len(entries) : entries[i].name = name
    THEN CHOOSE i \in 1..Len(entries) : entries[i].name = name
    ELSE 0

\* os.path.isdir(os.path.join(root, name))
IsDir(root, name) ==
    /\ fs[root].kind = "dir"
    /\ IndexOf(fs[root].entries, name) # 0
    /\ fs[root].entries[IndexOf(fs[root].entries, name)].node.isdir

NodeAt(root, name) == fs[root].entries[IndexOf(fs[root].entries, name)].node

----------------------------------------------------------------------------
(* Theme *)

RequiredKeys == {"name", "application", "identifier", "author"}

\* a construction that does not read the author
ThemeConstructs_unsigned(path) ==
    /\ IsDir(path[1], path[2])
    /\ NodeAt(path[1], path[2]).info.kind = "json"
    /\ (RequiredKeys \ {"author"}) \subseteq DOMAIN NodeAt(path[1], path[2]).info.doc

\* Theme.__init__ succeeds: info.json opens, parses and has the required keys
ThemeConstructs(path) ==
    /\ IsDir(path[1], path[2])
    /\ NodeAt(path[1], path[2]).info.kind = "json"
    /\ RequiredKeys \subseteq DOMAIN NodeAt(path[1], path[2]).info.doc

\* i.get(key): the value, or None
Get(i, key) == IF key \in DOMAIN i THEN Some(i[key]) ELSE None

\* i.get(key, default)
GetOr(i, key, default) == IF key \in DOMAIN i THEN i[key] ELSE default

\* Theme(path), for a path on which the construction succeeds
Theme(path) ==
    LET i == NodeAt(path[1], path[2]).info.doc
    IN  [path        |-> path,
         name        |-> i.name,
         application |-> i.application,
         identifier  |-> i.identifier,
         description |-> Get(i, "description"),
         license     |-> Get(i, "license"),
         license_url |-> Get(i, "license_url"),
         website     |-> Get(i, "website"),
         preview     |-> Get(i, "preview"),
         doctype     |-> GetOr(i, "doctype", "html5"),
         options     |-> GetOr(i, "options", <<>>)]

\* the object a construction makes: the metadata, and the identity of the
\* object, which is the scan that constructed it and its place in that scan
Object(t, scan, k) ==
    [path        |-> t.path,
     name        |-> t.name,
     application |-> t.application,
     identifier  |-> t.identifier,
     description |-> t.description,
     license     |-> t.license,
     license_url |-> t.license_url,
     website     |-> t.website,
     preview     |-> t.preview,
     doctype     |-> t.doctype,
     options     |-> t.options,
     oid         |-> <<scan, k>>]

\* the objects of one scan, the first of them the (base + 1)-th of the scan
Stamped(ts, scan, base) == [i \in 1..Len(ts) |-> Object(ts[i], scan, base + i)]

static_path(theme)    == theme.path \o <<"static">>
templates_path(theme) == theme.path \o <<"templates">>

----------------------------------------------------------------------------
(* Theme loaders *)

\* list_folders(path): the names of the directories in path, in listing
\* order; os.listdir raises when path is no directory
ListdirRaises(path) == path \notin DOMAIN fs \/ fs[path].kind # "dir"

list_folders(path) ==
    LET es == fs[path].entries
        F[i \in 0..Len(es)] ==
            IF i = 0 THEN <<>>
            ELSE IF es[i].node.isdir THEN Append(F[i - 1], es[i].name) ELSE F[i - 1]
    IN  F[Len(es)]

\* a scan that ends at the first directory whose Theme cannot be constructed
load_themes_from_abort(path) ==
    LET bs == SelectSeq(list_folders(path), IdentifierMatch)
        F[i \in 0..Len(bs)] ==
            IF i = 0 THEN [stopped |-> FALSE, themes |-> <<>>]
            ELSE IF F[i - 1].stopped THEN F[i - 1]
            ELSE IF ~ThemeConstructs(<<path, bs[i]>>)
                 THEN [stopped |-> TRUE, themes |-> F[i - 1].themes]
            ELSE IF Theme(<<path, bs[i]>>).identifier = bs[i]
                 THEN [stopped |-> FALSE,
                       themes  |-> Append(F[i - 1].themes, Theme(<<path, bs[i]>>))]
                 ELSE F[i - 1]
    IN  F[Len(bs)].themes

\* load_themes_from(path): the themes it yields, in order
load_themes_from(path) ==
    LET bs == list_folders(path)
        F[i \in 0..Len(bs)] ==
            IF i = 0 THEN <<>>
            ELSE IF /\ IdentifierMatch(bs[i])
                    /\ ThemeConstructs(<<path, bs[i]>>)
                    /\ Theme(<<path, bs[i]>>).identifier = bs[i]
                 THEN Append(F[i - 1], Theme(<<path, bs[i]>>))
                 ELSE F[i - 1]
    IN  F[Len(bs)]

\* packaged_themes_loader(app): the search paths its generator will scan
packaged_themes_loader ==
    IF fs[ThemesDir].kind # "absent" THEN <<ThemesDir>> ELSE <<>>

\* a configuration value that is a string
Str(chars) == <<chars, "basestring">>

\* isinstance(theme_paths, basestring)
IsBasestring(theme_paths) == Len(theme_paths) = 2

\* s.split(sep)
RECURSIVE split(_, _)
split(s, sep) ==
    LET i == FirstIndex(s, sep)
    IN  IF i = 0 THEN <<s>>
        ELSE <<SubSeq(s, 1, i - 1)>> \o split(SubSeq(s, i + 1, Len(s)), sep)

\* s.strip()
Whitespace == {" ", "\t", "\n", "\r"}
RECURSIVE strip(_)
strip(s) ==
    IF s = <<>> THEN s
    ELSE IF s[1] \in Whitespace THEN strip(Tail(s))
    ELSE IF s[Len(s)] \in Whitespace THEN strip(SubSeq(s, 1, Len(s) - 1))
    ELSE s

\* a loader that takes the pieces of a string as they are
theme_paths_loader_unstripped ==
    IF THEME_PATHS = None THEN <<>>
    ELSE IF IsBasestring(THEME_PATHS) THEN split(THEME_PATHS[1], ";")
    ELSE THEME_PATHS[1]

\* theme_paths_loader(app): the search paths its chain will scan
theme_paths_loader ==
    IF THEME_PATHS = None THEN <<>>
    ELSE IF IsBasestring(THEME_PATHS)
         THEN LET ps == split(THEME_PATHS[1], ";")
              IN  [i \in 1..Len(ps) |-> strip(ps[i])]
    ELSE THEME_PATHS[1]

RunLoader(ldr) ==
    IF ldr = "packaged_themes_loader" THEN packaged_themes_loader
    ELSE theme_paths_loader

\* starchain(ldr(self.app) for ldr in self.loaders): every loader is called,
\* then the search paths are scanned lazily, one after the other
LoaderPaths ==
    LET F[i \in 0..Len(loaders)] ==
            IF i = 0 THEN <<>> ELSE F[i - 1] \o RunLoader(loaders[i])
    IN  F[Len(loaders)]

\* the themes the chain yields before it is exhausted or a listing raises
starchain(paths) ==
    LET F[i \in 0..Len(paths)] ==
            IF i = 0 THEN [raised |-> FALSE, themes |-> <<>>]
            ELSE IF F[i - 1].raised THEN F[i - 1]
            ELSE IF ListdirRaises(paths[i])
                 THEN [raised |-> TRUE, themes |-> F[i - 1].themes]
                 ELSE [raised |-> FALSE,
                       themes |-> F[i - 1].themes
                                     \o Stamped(load_themes_from(paths[i]), nscans + 1,
                                                Len(F[i - 1].themes))]
    IN  F[Len(paths)]

----------------------------------------------------------------------------
(* ThemeManager *)

\* self.app_identifier, as given to ThemeManager.__init__
app_identifier == manager[1].app_identifier

\* a comparison that ignores the case of the first letter
valid_app_id_nocase(application) == application \in {app_identifier, "Testing"}

valid_app_id(application) == app_identifier = application

\* d[key] = value
DictSet(d, key, value) ==
    [k \in DOMAIN d \cup {key} |-> IF k = key THEN value ELSE d[k]]

EmptyDict == [k \in {} |-> 0]

\* a refresh that adds to the registry it finds
refresh_keeps_old ==
    LET c == starchain(LoaderPaths)
        F[i \in 0..Len(c.themes)] ==
            IF i = 0 THEN IF _themes = None THEN EmptyDict ELSE _themes[1]
            ELSE IF valid_app_id(c.themes[i].application)
                 THEN DictSet(F[i - 1], c.themes[i].identifier, c.themes[i])
                 ELSE F[i - 1]
    IN  [themes  |-> F[Len(c.themes)],
         raised  |-> c.raised,
         yielded |-> c.themes]

\* a refresh that keeps the theme registered first under an identifier
refresh_first_wins ==
    LET c == starchain(LoaderPaths)
        F[i \in 0..Len(c.themes)] ==
            IF i = 0 THEN EmptyDict
            ELSE IF /\ valid_app_id(c.themes[i].application)
                    /\ c.themes[i].identifier \notin DOMAIN F[i - 1]
                 THEN DictSet(F[i - 1], c.themes[i].identifier, c.themes[i])
                 ELSE F[i - 1]
    IN  [themes  |-> F[Len(c.themes)],
         raised  |-> c.raised,
         yielded |-> c.themes]

\* a refresh in which a candidate of another application unregisters the
\* theme of its identifier
refresh_drops_rejected ==
    LET c == starchain(LoaderPaths)
        F[i \in 0..Len(c.themes)] ==
            IF i = 0 THEN EmptyDict
            ELSE IF valid_app_id(c.themes[i].application)
                 THEN DictSet(F[i - 1], c.themes[i].identifier, c.themes[i])
                 ELSE [k \in DOMAIN F[i - 1] \ {c.themes[i].identifier} |-> F[i - 1][k]]
    IN  [themes  |-> F[Len(c.themes)],
         raised  |-> c.raised,
         yielded |-> c.themes]

\* a refresh that puts the registry back as it was when a loader raises
refresh_restores ==
    LET c == starchain(LoaderPaths)
        F[i \in 0..Len(c.themes)] ==
            IF i = 0 THEN EmptyDict
            ELSE IF valid_app_id(c.themes[i].application)
                 THEN DictSet(F[i - 1], c.themes[i].identifier, c.themes[i])
                 ELSE F[i - 1]
    IN  [themes  |-> IF c.raised /\ _themes # None THEN _themes[1]
                     ELSE F[Len(c.themes)],
         raised  |-> c.raised,
         yielded |-> c.themes]

\* the body of refresh(): what the registry holds when it returns or raises
refresh ==
    LET c == starchain(LoaderPaths)
        F[i \in 0..Len(c.themes)] ==
            IF i = 0 THEN EmptyDict
            ELSE IF valid_app_id(c.themes[i].application)
                 THEN DictSet(F[i - 1], c.themes[i].identifier, c.themes[i])
                 ELSE F[i - 1]
    IN  [themes  |-> F[Len(c.themes)],
         raised  |-> c.raised,
         yielded |-> c.themes]

\* a themes property that refreshes a registry that is empty, too
themes_if_empty ==
    IF _themes = None \/ DOMAIN _themes[1] = {} THEN refresh
    ELSE [themes |-> _themes[1], raised |-> FALSE, yielded |-> <<>>]

\* the themes property: an unloaded registry is refreshed by the read
themes ==
    IF _themes = None THEN refresh
    ELSE [themes |-> _themes[1], raised |-> FALSE, yielded |-> <<>>]

----------------------------------------------------------------------------
(* The themed template loader and the host framework's template lookup *)

PrefixLen == 8

TemplateNotFound(name) == [found |-> FALSE, raised |-> "TemplateNotFound", name |-> name]
OSError                == [found |-> FALSE, raised |-> "OSError"]
Source(owner, name)    == [found |-> TRUE, owner |-> owner, name |-> name]

\* FileSystemLoader(searchpath).get_source(environment, templatename), for
\* the templates directory of a theme root
FileSystemLoader_get_source(searchpath, templatename) ==
    IF /\ IsDir(searchpath[1], searchpath[2])
       /\ templatename \in NodeAt(searchpath[1], searchpath[2]).templates
    THEN Source(<<searchpath[1], searchpath[2]>>, templatename)
    ELSE TemplateNotFound(templatename)

\* an exception other than TemplateNotFound leaving a lookup
Raised(e) == [found |-> FALSE, raised |-> e]

\* the first try block of get_source: the split of the name and the lookup
\* of the theme; reg is what the themes property gives the call
ThemeTemplateLoader_lookup(reg, t) ==
    LET parts == Split1(t)
    IN  IF Len(parts) # 2 THEN [raised |-> "ValueError"]
        ELSE IF reg.raised THEN [raised |-> "OSError"]
        ELSE IF parts[1] \notin DOMAIN reg.themes THEN [raised |-> "KeyError"]
        ELSE [raised |-> "", theme |-> reg.themes[parts[1]], templatename |-> parts[2]]

\* a get_source whose except clause names KeyError only
ThemeTemplateLoader_get_source_keyerror(reg, as_blueprint, template) ==
    LET t   == IF as_blueprint /\ StartsWith(template, ThemesPrefix)
               THEN DropFirst(template, PrefixLen) ELSE template
        l   == ThemeTemplateLoader_lookup(reg, t)
        src == FileSystemLoader_get_source(templates_path(l.theme), l.templatename)
    IN  IF l.raised = "KeyError" THEN TemplateNotFound(t)
        ELSE IF l.raised # "" THEN Raised(l.raised)
        ELSE IF src.found THEN src
        ELSE TemplateNotFound(t)

\* ThemeTemplateLoader(as_blueprint).get_source(environment, template)
ThemeTemplateLoader_get_source(reg, as_blueprint, template) ==
    The({The({IF l.raised \in {"ValueError", "KeyError"} THEN TemplateNotFound(t)
              ELSE IF l.raised # "" THEN Raised(l.raised)
              ELSE The({IF src.found THEN src ELSE TemplateNotFound(t) :
                          src \in {FileSystemLoader_get_source(
                                      templates_path(l.theme), l.templatename)}}) :
                l \in {ThemeTemplateLoader_lookup(reg, t)}}) :
           t \in {IF as_blueprint /\ StartsWith(template, ThemesPrefix)
                  THEN DropFirst(template, PrefixLen) ELSE template}})

\* whether ThemeTemplateLoader.get_source reads the themes property
ThemeTemplateLoader_reads(as_blueprint, template) ==
    LET t == IF as_blueprint /\ StartsWith(template, ThemesPrefix)
             THEN DropFirst(template, PrefixLen) ELSE template
    IN  Len(Split1(t)) = 2

\* the application's own loader: the templates folder of the application
app_jinja_loader_get_source(template) ==
    IF template \in app_templates THEN Source(<<"app">>, template)
    ELSE TemplateNotFound(template)

\* the framework's lookup of a template name. With blueprints every name goes
\* to the application's loader and then, unchanged, to the blueprint's loader
\* ThemeTemplateLoader(True); with modules a name '_themes/<rest>' goes to the
\* module's loader ThemeTemplateLoader(False) as '<rest>', and then, unchanged,
\* to the application's loader.
jinja_env_get_source(reg, template) ==
    The({IF USING_BLUEPRINTS
         THEN IF own.found THEN own
              ELSE The({IF themed.found \/ themed.raised = "OSError" THEN themed
                        ELSE TemplateNotFound(name) :
                          themed \in {ThemeTemplateLoader_get_source(reg, TRUE, name)}})
         ELSE IF Len(parts) = 2 /\ parts[1] \o <<"/">> = ThemesPrefix
              THEN The({IF themed.found \/ themed.raised = "OSError" THEN themed
                        ELSE own :
                          themed \in {ThemeTemplateLoader_get_source(reg, FALSE,
                                                                     parts[2])}})
              ELSE own :
           name \in {template},
           own \in {app_jinja_loader_get_source(template)},
           parts \in {Split1(template)}})

\* FileSystemLoader(searchpath).list_templates(), for the templates
\* directory of a theme root
FileSystemLoader_list_templates(searchpath) ==
    IF IsDir(searchpath[1], searchpath[2])
    THEN NodeAt(searchpath[1], searchpath[2]).templates
    ELSE {}

\* ThemeTemplateLoader.list_templates(): '_themes/<ident>/<t>' for every
\* template t of every registered theme, whatever as_blueprint is
ThemeTemplateLoader_list_templates(reg) ==
    UNION {{Namespaced(ident, t) :
               t \in FileSystemLoader_list_templates(templates_path(reg.themes[ident]))} :
           ident \in DOMAIN reg.themes}

\* app.jinja_env.list_templates(): the application's templates and, with
\* blueprints, the names the blueprint's loader lists, unchanged; with modules,
\* the names the module's loader lists, each prefixed with '<module name>/'
jinja_env_list_templates(reg) ==
    IF USING_BLUEPRINTS
    THEN app_templates \cup ThemeTemplateLoader_list_templates(reg)
    ELSE app_templates
            \cup {ThemesPrefix \o t : t \in ThemeTemplateLoader_list_templates(reg)}

\* template_exists(templatename)
template_exists(reg, templatename) ==
    IF reg.raised THEN [raised |-> TRUE, exists |-> FALSE]
    ELSE [raised |-> FALSE, exists |-> templatename \in jinja_env_list_templates(reg)]

\* whether that lookup reads the themes property
jinja_env_reads(template) ==
    IF USING_BLUEPRINTS
    THEN /\ ~app_jinja_loader_get_source(template).found
         /\ ThemeTemplateLoader_reads(TRUE, template)
    ELSE LET parts == Split1(template)
         IN  /\ Len(parts) = 2
             /\ parts[1] \o <<"/">> = ThemesPrefix
             /\ ThemeTemplateLoader_reads(FALSE, parts[2])

----------------------------------------------------------------------------
(* Theme functionality *)

\* a theme argument: a Theme instance or an identifier
AsTheme(t)      == [isTheme |-> TRUE, theme |-> t]
AsIdentifier(i) == [isTheme |-> FALSE, id |-> i]

\* if isinstance(theme, Theme): theme = theme.identifier
IdentifierOf(arg) == IF arg.isTheme THEN arg.theme.identifier ELSE arg.id

\* url_for(endpoint, themeid=..., filename=..., _external=...): the reversed
\* rule '<url_prefix>/<themeid>/<path:filename>' of the endpoint
url_for(endpoint, themeid, filename, external) ==
    [endpoint |-> endpoint, themeid |-> themeid, filename |-> filename,
     external |-> external]

\* a static_file_url that reverses the application's own static route
static_file_url_app_static(theme, filename, external) ==
    url_for("static", IdentifierOf(theme), filename, external)

static_file_url(theme, filename, external) ==
    url_for("_themes.static", IdentifierOf(theme), filename, external)

\* a render context: the variables passed to the template and its name
Context(marker, name) == [_theme |-> marker, name |-> name]

\* an active_theme that reads the template name only, and gives up quietly
active_theme_quiet(ctx) ==
    IF ctx._theme # None THEN [raised |-> "", theme |-> ctx._theme[1]]
    ELSE [raised |-> "", theme |-> Split1(DropFirst(ctx.name, PrefixLen))[1]]

\* an active_theme that looks at the template name before the marker
active_theme_name_first(ctx) ==
    IF StartsWith(ctx.name, ThemesPrefix)
    THEN [raised |-> "", theme |-> Split1(DropFirst(ctx.name, PrefixLen))[1]]
    ELSE IF ctx._theme # None THEN [raised |-> "", theme |-> ctx._theme[1]]
         ELSE [raised |-> "RuntimeError", theme |-> <<>>]

\* active_theme(ctx)
active_theme(ctx) ==
    IF ctx._theme # None THEN [raised |-> "", theme |-> ctx._theme[1]]
    ELSE IF StartsWith(ctx.name, ThemesPrefix)
         THEN [raised |-> "", theme |-> Split1(DropFirst(ctx.name, PrefixLen))[1]]
         ELSE [raised |-> "RuntimeError", theme |-> <<>>]

\* global_theme_template(ctx, templatename, fallback=True), the global theme()
global_theme_template(reg, ctx, templatename, fallback) ==
    LET theme == active_theme(ctx)
        templatepath == Namespaced(theme.theme, templatename)
        exists == template_exists(reg, templatepath)
    IN  IF theme.raised # "" THEN [raised |-> "RuntimeError", path |-> None]
        ELSE IF ~fallback THEN [raised |-> "", path |-> Some(templatepath)]
        ELSE IF exists.raised THEN [raised |-> "OSError", path |-> None]
        ELSE IF exists.exists THEN [raised |-> "", path |-> Some(templatepath)]
        ELSE [raised |-> "", path |-> Some(templatename)]

\* global_theme_static(ctx, filename, external=False)
global_theme_static(ctx, filename) ==
    LET theme == active_theme(ctx)
    IN  IF theme.raised # "" THEN [raised |-> "RuntimeError", url |-> None]
        ELSE [raised |-> "",
              url |-> Some(static_file_url(AsIdentifier(theme.theme), filename, FALSE))]

\* what a template does when it is rendered: static is
\* '{{ theme_static("style.css") }}', every other template is plain text
CallsThemeStatic(name) == name = static_html

\* the template a template includes: a theme's page is
\* '{% include "other" %}', the application's static_parent is
\* '{% include "_themes/plain/static" %}'; no other template includes one.
\* The name is looked up when the including template is rendered, as the
\* name of '{% extends %}' is.
Includes(owner, name) ==
    IF owner # <<"app">> /\ name = page THEN Some(other)
    ELSE IF owner = <<"app">> /\ name = static_parent
         THEN Some(Namespaced(plain, static_html))
         ELSE None

\* the rendering of one template's own text
render_body(reg, template_name, marker) ==
    The({IF ~src.found
         THEN [status |-> src.raised, source |-> <<>>, url |-> None, active |-> None]
         ELSE IF CallsThemeStatic(src.name)
         THEN IF url.raised # ""
              THEN [status |-> "RuntimeError", source |-> <<>>, url |-> None,
                    active |-> None]
              ELSE [status |-> "ok", source |-> <<src.owner, src.name>>,
                    url    |-> url.url,
                    active |-> Some(active_theme(ctx).theme)]
         ELSE [status |-> "ok", source |-> <<src.owner, src.name>>, url |-> None,
               active |-> None] :
           src \in {jinja_env_get_source(reg, template_name)},
           ctx \in {Context(marker, template_name)},
           url \in {global_theme_static(Context(marker, template_name), "style.css")}})

\* render_template(template_name, **context): the included template is
\* rendered with the context of the including one, under its own name
render_template(reg, template_name, marker) ==
    The({IF own.status # "ok" THEN own
         ELSE IF Includes(own.source[1], own.source[2]) = None THEN own
         ELSE The({IF inner.status # "ok"
                   THEN [status |-> inner.status, source |-> <<>>, url |-> None,
                         active |-> None]
                   ELSE [status |-> "ok", source |-> own.source, url |-> inner.url,
                         active |-> inner.active] :
                     inner \in {render_body(reg, Includes(own.source[1],
                                                          own.source[2])[1], marker)}}) :
           own \in {render_body(reg, template_name, marker)}})

\* whether render_template reads the themes property
render_template_reads(reg, template_name, marker) ==
    \/ jinja_env_reads(template_name)
    \/ \E own \in {render_body(reg, template_name, marker)} :
          /\ own.status = "ok"
          /\ Includes(own.source[1], own.source[2]) # None
          /\ jinja_env_reads(Includes(own.source[1], own.source[2])[1])

\* a render_theme_template that never falls back
render_theme_template_strict(reg, theme, template_name, fallback) ==
    [result   |-> render_template(reg, Namespaced(IdentifierOf(theme), template_name),
                                  Some(IdentifierOf(theme))),
     attempts |-> <<Namespaced(IdentifierOf(theme), template_name)>>]

\* a render_theme_template that falls back without the active-theme marker
render_theme_template_unmarked(reg, theme, template_name, fallback) ==
    LET marker == Some(IdentifierOf(theme))
        themed == Namespaced(IdentifierOf(theme), template_name)
        first  == render_template(reg, themed, marker)
    IN  IF first.status = "TemplateNotFound" /\ fallback
        THEN [result   |-> render_template(reg, template_name, None),
              attempts |-> <<themed, template_name>>]
        ELSE [result |-> first, attempts |-> <<themed>>]

\* render_theme_template(theme, template_name, _fallback=True, **context):
\* the result, and the names render_template was called with
render_theme_template(reg, theme, template_name, fallback) ==
    LET marker == Some(IdentifierOf(theme))
        themed == Namespaced(IdentifierOf(theme), template_name)
    IN  The({IF first.status = "TemplateNotFound" /\ fallback
             THEN [result   |-> render_template(reg, template_name, marker),
                   attempts |-> <<themed, template_name>>]
             ELSE [result |-> first, attempts |-> <<themed>>] :
               first \in {render_template(reg, themed, marker)}})

\* whether the call reads the themes property
render_theme_template_reads(reg, theme, template_name, fallback) ==
    LET marker == Some(IdentifierOf(theme))
        themed == Namespaced(IdentifierOf(theme), template_name)
    IN  \/ render_template_reads(reg, themed, marker)
        \/ /\ render_template(reg, themed, marker).status = "TemplateNotFound"
           /\ fallback
           /\ render_template_reads(reg, template_name, marker)

\* send_from_directory(directory, filename)
send_from_directory(directory, filename) ==
    IF /\ IsDir(directory[1], directory[2])
       /\ filename \in NodeAt(directory[1], directory[2]).static
    THEN [status |-> 200, file |-> <<directory, filename>>]
    ELSE [status |-> 404, file |-> <<>>]

\* a view that serves the packaged directory named like the theme
static_packaged(reg, themeid, filename) ==
    IF reg.raised THEN [status |-> 500, file |-> <<>>]
    ELSE send_from_directory(<<ThemesDir, themeid, "static">>, filename)

\* the view of '/_themes/<themeid>/<path:filename>'
static(reg, themeid, filename) ==
    IF reg.raised THEN [status |-> 500, file |-> <<>>]
    ELSE IF themeid \notin DOMAIN reg.themes THEN [status |-> 404, file |-> <<>>]
    ELSE send_from_directory(static_path(reg.themes[themeid]), filename)

----------------------------------------------------------------------------
(* The initial state: the theme directories the tests ship and a few broken *)
(* ones, and a manager that has not loaded its themes yet                   *)

PackagedThemes ==
    <<Entry(cool, CoolV1), Entry(noinfo, NoInfo), Entry(plain, Plain),
      Entry(locked, Locked), Entry(notthis, NotThis), Entry(garbled, Garbled),
      Entry(noauthor, NoAuthor), Entry(readme, RegularFile), Entry(two_x, TwoX),
      Entry(coolNL, CoolNL), Entry(alias, Alias)>>

MoreThemes == <<Entry(cool, CoolV2)>>

DefaultLoaders == <<"packaged_themes_loader", "theme_paths_loader">>

LoaderLists == {DefaultLoaders, <<"theme_paths_loader", "packaged_themes_loader">>}

PathLists ==
    {<<MoreDir>>, <<MoreDir, ThemesDir>>, <<MoreDir, ExtraDir>>, <<ExtraDir, MoreDir>>}

Idle == [op |-> "idle"]

\* app = Flask(import_name)
Flask(import_name) ==
    [import_name |-> import_name, theme_manager |-> None,
     modules |-> {}, globals |-> {}]

\* the app of the tests after setup_themes(app, app_identifier='testing')
SetUpApp ==
    [import_name |-> "tests", theme_manager |-> Some(1),
     modules |-> {"_themes"}, globals |-> {"theme", "theme_static"}]

InitDisk ==
    /\ fs = [r \in Roots |->
               IF r = ThemesDir THEN RootDir(PackagedThemes)
               ELSE IF r = MoreDir THEN RootDir(MoreThemes)
               ELSE RootAbsent]
    /\ app_templates = {hello, static_html}
    /\ _themes = None
    /\ last = Idle
    /\ nchanges = 0
    /\ nscans = 0
    /\ app = SetUpApp
    /\ running = None
    /\ manager = Some([id |-> 1, package |-> "flask_themes",
                       app_identifier |-> "testing"])

Init ==
    /\ InitDisk
    /\ THEME_PATHS \in {None, Some(<<MoreDir>>)}
    /\ loaders \in LoaderLists
    /\ USING_BLUEPRINTS = TRUE

----------------------------------------------------------------------------
(* Changes to the disk and to the configuration, made by the environment *)

Without(entries, name) == SelectSeq(entries, LAMBDA e : e.name # name)

\* a directory or a file is created or replaced in a search root
PutEntry(root, e) ==
    /\ last = Idle
    /\ nchanges < MaxChanges
    /\ fs[root].kind = "dir"
    /\ IF IndexOf(fs[root].entries, e.name) = 0 THEN TRUE
       ELSE fs[root].entries[IndexOf(fs[root].entries, e.name)] # e
    /\ fs' = [fs EXCEPT ![root].entries = Append(Without(@, e.name), e)]
    /\ nchanges' = nchanges + 1
    /\ UNCHANGED <<app, manager, app_templates, THEME_PATHS, loaders, USING_BLUEPRINTS, running, _themes, last, nscans>>

\* a directory or a file is removed from a search root
RemoveEntry(root, name) ==
    /\ last = Idle
    /\ nchanges < MaxChanges
    /\ fs[root].kind = "dir"
    /\ IndexOf(fs[root].entries, name) # 0
    /\ fs' = [fs EXCEPT ![root].entries = Without(@, name)]
    /\ nchanges' = nchanges + 1
    /\ UNCHANGED <<app, manager, app_templates, THEME_PATHS, loaders, USING_BLUEPRINTS, running, _themes, last, nscans>>

\* a search root is removed, replaced by a file, or created empty
SetRoot(root, r) ==
    /\ last = Idle
    /\ nchanges < MaxChanges
    /\ fs[root].kind # r.kind
    /\ fs' = [fs EXCEPT ![root] = r]
    /\ nchanges' = nchanges + 1
    /\ UNCHANGED <<app, manager, app_templates, THEME_PATHS, loaders, USING_BLUEPRINTS, running, _themes, last, nscans>>

\* app.config['THEME_PATHS'] = paths
SetThemePaths(paths) ==
    /\ last = Idle
    /\ nchanges < MaxChanges
    /\ THEME_PATHS # Some(paths)
    /\ THEME_PATHS' = Some(paths)
    /\ nchanges' = nchanges + 1
    /\ UNCHANGED <<app, manager, fs, app_templates, loaders, USING_BLUEPRINTS, running, _themes, last, nscans>>

\* a template is added to or removed from the application's templates folder
SetAppTemplate(name) ==
    /\ last = Idle
    /\ nchanges < MaxChanges
    /\ app_templates' = IF name \in app_templates THEN app_templates \ {name}
                        ELSE app_templates \cup {name}
    /\ nchanges' = nchanges + 1
    /\ UNCHANGED <<app, manager, fs, THEME_PATHS, loaders, USING_BLUEPRINTS, running, _themes, last, nscans>>

----------------------------------------------------------------------------
(* Calls. One call is made at a time; last holds what it was given and what *)
(* it returned or raised until the caller has taken the result.             *)

\* a Fleem(app) that has constructed its manager and not yet refreshed it
Pending == last.op = "Fleem" /\ last.at = "refresh"

Return ==
    /\ last # Idle
    /\ ~Pending
    /\ last' = Idle
    /\ UNCHANGED <<app, manager, fs, app_templates, THEME_PATHS, loaders, USING_BLUEPRINTS, running,
                   _themes, nchanges, nscans>>

\* manager.refresh(), called when the caller has taken the result of the
\* call before, or once more right after a refresh() that has returned
Refresh ==
    /\ last = Idle \/ (last.op = "refresh" /\ ~last.raised)
    /\ nscans < MaxScans
    /\ \E r \in {refresh} :
          /\ _themes' = Some(r.themes)
          /\ last' = [op |-> "refresh", raised |-> r.raised,
                      yielded |-> r.yielded, paths |-> LoaderPaths,
                      before |-> _themes, again |-> last # Idle]
    /\ nscans' = nscans + 1
    /\ UNCHANGED <<app, manager, fs, app_templates, THEME_PATHS, loaders, USING_BLUEPRINTS, running, nchanges>>

\* manager.themes
ReadThemes ==
    /\ last = Idle
    /\ \E reg \in {themes} :
          /\ _themes' = Some(reg.themes)
          /\ last' = [op |-> "themes", raised |-> reg.raised,
                      refreshed |-> _themes = None]
    /\ nscans' = IF _themes = None THEN nscans + 1 ELSE nscans
    /\ UNCHANGED <<app, manager, fs, app_templates, THEME_PATHS, loaders, USING_BLUEPRINTS, running, nchanges>>

\* list(load_themes_from(path))
LoadThemesFrom(path) ==
    /\ last = Idle
    /\ nscans < MaxScans
    /\ last' = [op |-> "load_themes_from", path |-> path,
                raised  |-> ListdirRaises(path),
                yielded |-> IF ListdirRaises(path) THEN <<>>
                            ELSE Stamped(load_themes_from(path), nscans + 1, 0)]
    /\ nscans' = nscans + 1
    /\ UNCHANGED <<app, manager, fs, app_templates, THEME_PATHS, loaders, USING_BLUEPRINTS, running,
                   _themes, nchanges>>

\* render_theme_template(theme, template_name, _fallback)
RenderThemeTemplate(theme, template_name, fallback) ==
    /\ last = Idle
    /\ \E reg \in {themes} :
       \E r \in {render_theme_template(reg, theme, template_name, fallback)},
          reads \in {render_theme_template_reads(reg, theme, template_name, fallback)} :
          /\ _themes' = IF reads THEN Some(reg.themes) ELSE _themes
          /\ nscans' = IF _themes = None /\ reads THEN nscans + 1 ELSE nscans
          /\ last' = [op |-> "render_theme_template", theme |-> theme,
                      template_name |-> template_name, fallback |-> fallback,
                      result |-> r.result, attempts |-> r.attempts,
                      raised |-> r.result.status = "OSError"]
    /\ UNCHANGED <<app, manager, fs, app_templates, THEME_PATHS, loaders, USING_BLUEPRINTS, running, nchanges>>

\* render_template(template_name), with no active-theme marker in the context
RenderTemplate(template_name) ==
    /\ last = Idle
    /\ \E reg \in {themes} :
       \E r \in {render_template(reg, template_name, None)},
          reads \in {render_template_reads(reg, template_name, None)} :
          /\ _themes' = IF reads THEN Some(reg.themes) ELSE _themes
          /\ nscans' = IF _themes = None /\ reads THEN nscans + 1 ELSE nscans
          /\ last' = [op |-> "render_template", template_name |-> template_name,
                      result |-> r, raised |-> r.status = "OSError"]
    /\ UNCHANGED <<app, manager, fs, app_templates, THEME_PATHS, loaders, USING_BLUEPRINTS, running, nchanges>>

\* static_file_url(theme, filename, external)
StaticFileUrl(theme, filename, external) ==
    /\ last = Idle
    /\ last' = [op |-> "static_file_url", theme |-> theme, filename |-> filename,
                external |-> external,
                result |-> static_file_url(theme, filename, external)]
    /\ UNCHANGED <<app, manager, fs, app_templates, THEME_PATHS, loaders, USING_BLUEPRINTS, running,
                   _themes, nchanges, nscans>>

\* GET /_themes/<themeid>/<filename>
GetStatic(themeid, filename) ==
    /\ last = Idle
    /\ IF app.theme_manager = None
       THEN \* current_app.theme_manager raises AttributeError
            /\ last' = [op |-> "static", themeid |-> themeid, filename |-> filename,
                        result |-> [status |-> 500, file |-> <<>>],
                        raised |-> TRUE]
            /\ UNCHANGED <<_themes, nscans>>
       ELSE /\ \E reg \in {themes} :
                  /\ _themes' = Some(reg.themes)
                  /\ last' = [op |-> "static", themeid |-> themeid,
                              filename |-> filename,
                              result |-> static(reg, themeid, filename),
                              raised |-> reg.raised]
            /\ nscans' = IF _themes = None THEN nscans + 1 ELSE nscans
    /\ UNCHANGED <<app, manager, fs, app_templates, THEME_PATHS, loaders, USING_BLUEPRINTS, running, nchanges>>

\* themes_mod.jinja_loader.get_source(app.jinja_env, template), or the same
\* of themes_blueprint.jinja_loader
GetSource(as_blueprint, template) ==
    /\ last = Idle
    /\ as_blueprint => USING_BLUEPRINTS
    /\ IF app.theme_manager = None /\ ThemeTemplateLoader_reads(as_blueprint, template)
       THEN \* current_app.theme_manager raises AttributeError
            /\ last' = [op |-> "get_source", as_blueprint |-> as_blueprint,
                        template |-> template, result |-> Raised("AttributeError"),
                        raised |-> TRUE]
            /\ UNCHANGED <<_themes, nscans>>
       ELSE \E reg \in {IF ThemeTemplateLoader_reads(as_blueprint, template)
                        THEN themes
                        ELSE [themes |-> EmptyDict, raised |-> FALSE,
                              yielded |-> <<>>]} :
            \E r \in {ThemeTemplateLoader_get_source(reg, as_blueprint, template)} :
               /\ _themes' = IF ThemeTemplateLoader_reads(as_blueprint, template)
                             THEN Some(reg.themes) ELSE _themes
               /\ nscans' = IF /\ _themes = None
                                /\ ThemeTemplateLoader_reads(as_blueprint, template)
                            THEN nscans + 1 ELSE nscans
               /\ last' = [op |-> "get_source", as_blueprint |-> as_blueprint,
                           template |-> template, result |-> r,
                           raised |-> ~r.found /\ r.raised = "OSError"]
    /\ UNCHANGED <<app, manager, fs, app_templates, THEME_PATHS, loaders, USING_BLUEPRINTS, running, nchanges>>

\* template_exists(templatename)
TemplateExists(templatename) ==
    /\ last = Idle
    /\ \E reg \in {themes} :
          /\ _themes' = Some(reg.themes)
          /\ last' = [op |-> "template_exists", templatename |-> templatename,
                      result |-> template_exists(reg, templatename).exists,
                      raised |-> reg.raised]
    /\ nscans' = IF _themes = None THEN nscans + 1 ELSE nscans
    /\ UNCHANGED <<app, manager, fs, app_templates, THEME_PATHS, loaders, USING_BLUEPRINTS, running, nchanges>>

----------------------------------------------------------------------------
(* The manager, its loaders and the disk *)

Next ==
    \/ \E root \in {ThemesDir, MoreDir},
          e \in {Entry(cool, Foreign), Entry(cool, Garbled), Entry(plain, Plain2)} :
          PutEntry(root, e)
    \/ \E root \in {ThemesDir, MoreDir}, name \in {cool, plain} : RemoveEntry(root, name)
    \/ \E root \in Roots, r \in {RootAbsent, RootFile} : SetRoot(root, r)
    \/ \E paths \in PathLists : SetThemePaths(paths)
    \/ Refresh
    \/ ReadThemes
    \/ \E path \in Roots : LoadThemesFrom(path)
    \/ Return

Spec == Init /\ [][Next]_vars

----------------------------------------------------------------------------
(* Rendering and the static route, over a manager with the default loaders *)

InitRender ==
    /\ InitDisk
    /\ THEME_PATHS = Some(<<MoreDir>>)
    /\ loaders = DefaultLoaders
    /\ USING_BLUEPRINTS \in BOOLEAN

\* the theme arguments of a call: identifiers, and the Theme objects at hand
ThemeArgs ==
    {AsIdentifier(i) : i \in {cool, plain, notthis}}
        \cup (IF _themes # None /\ cool \in DOMAIN _themes[1]
              THEN {AsTheme(_themes[1][cool])} ELSE {})

TemplateNames == {hello, static_html, cool \o <<"/">> \o hello}

\* the names a themed loader is asked for: of a registered theme with and
\* without the template, of a theme that is not registered, with the prefix
\* of the blueprint, and with no separator
LoaderNames ==
    {t \o <<"/">> \o n : t \in {cool, plain, notthis}, n \in {hello, static_html}}
        \cup {Namespaced(cool, hello), Namespaced(plain, hello), hello}

NextRender ==
    \/ \E e \in {Entry(cool, CoolV1), Entry(cool, Foreign)} : PutEntry(MoreDir, e)
    \/ \E root \in {ThemesDir, MoreDir}, name \in {cool, plain} : RemoveEntry(root, name)
    \/ SetThemePaths(<<MoreDir, ExtraDir>>)
    \/ \E name \in {hello, static_html} : SetAppTemplate(name)
    \/ Refresh
    \/ \E theme \in ThemeArgs, name \in TemplateNames, fallback \in BOOLEAN :
          RenderThemeTemplate(theme, name, fallback)
    \/ \E name \in TemplateNames \cup {Namespaced(plain, static_html)} :
          RenderTemplate(name)
    \/ \E theme \in ThemeArgs, external \in BOOLEAN :
          StaticFileUrl(theme, "style.css", external)
    \/ \E themeid \in {cool, plain, notthis}, filename \in {"style.css", "print.css"} :
          GetStatic(themeid, filename)
    \/ \E as_blueprint \in BOOLEAN, template \in LoaderNames :
          GetSource(as_blueprint, template)
    \/ \E templatename \in {hello, other, Namespaced(cool, hello),
                             Namespaced(plain, hello), Namespaced(notthis, hello)} :
          TemplateExists(templatename)
    \/ Return

SpecRender == InitRender /\ [][NextRender]_vars

----------------------------------------------------------------------------
(* Rendering templates that include other templates *)

\* active_theme(ctx) in a template rendered under the name with the marker
ActiveTheme(marker, name) ==
    /\ last = Idle
    /\ last' = [op |-> "active_theme", marker |-> marker, name |-> name,
                result |-> active_theme(Context(marker, name))]
    /\ UNCHANGED <<app, manager, fs, app_templates, THEME_PATHS, loaders,
                   USING_BLUEPRINTS, running, _themes, nchanges, nscans>>

\* theme(templatename, fallback) in a template rendered under the name with
\* the marker
GlobalThemeTemplate(marker, name, templatename, fallback) ==
    /\ last = Idle
    /\ IF fallback /\ active_theme(Context(marker, name)).raised = ""
       THEN /\ \E reg \in {themes} :
               \E r \in {global_theme_template(reg, Context(marker, name),
                                                templatename, fallback)} :
                  /\ _themes' = Some(reg.themes)
                  /\ last' = [op |-> "theme", marker |-> marker, name |-> name,
                              templatename |-> templatename, fallback |-> fallback,
                              result |-> r]
            /\ nscans' = IF _themes = None THEN nscans + 1 ELSE nscans
       ELSE /\ last' = [op |-> "theme", marker |-> marker, name |-> name,
                        templatename |-> templatename, fallback |-> fallback,
                        result |-> global_theme_template(
                                      [themes |-> EmptyDict, raised |-> FALSE,
                                       yielded |-> <<>>],
                                      Context(marker, name), templatename, fallback)]
            /\ UNCHANGED <<_themes, nscans>>
    /\ UNCHANGED <<app, manager, fs, app_templates, THEME_PATHS, loaders,
                   USING_BLUEPRINTS, running, nchanges>>

\* theme identifiers: the shipped ones, and ones with every kind of character
Identifiers == {cool, plain, Zen, <<"_","x","1">>}

\* template names: plain ones, one in a folder, one that looks namespaced
NamesOfTemplates == {hello, static_html, <<"a","/","b">>, ThemesPrefix \o <<"x">>}

Markers == {None, Some(cool), Some(<<"_","x","1">>)}

NextInclude ==
    \/ \E marker \in Markers,
          name \in NamesOfTemplates
                      \cup {Namespaced(t, n) : t \in Identifiers, n \in NamesOfTemplates} :
          ActiveTheme(marker, name)
    \/ \E marker \in Markers, name \in {hello, Namespaced(plain, static_html)},
          templatename \in {hello, <<"a","/","b">>}, fallback \in BOOLEAN :
          GlobalThemeTemplate(marker, name, templatename, fallback)
    \/ PutEntry(MoreDir, Entry(cool, Paged))
    \/ \E name \in {page, other, static_parent} : SetAppTemplate(name)
    \/ RemoveEntry(ThemesDir, plain)
    \/ Refresh
    \/ \E theme \in ThemeArgs, name \in {page, hello, static_parent},
          fallback \in BOOLEAN :
          RenderThemeTemplate(theme, name, fallback)
    \/ \E name \in {static_parent, page, Namespaced(cool, page),
                     Namespaced(plain, static_html)} :
          RenderTemplate(name)
    \/ Return

SpecInclude == InitRender /\ [][NextInclude]_vars

----------------------------------------------------------------------------
(* Lookups in the registry of the current app's manager *)

\* a lookup that answers None for an identifier that is not registered
get_theme_or_none(reg, ident) ==
    IF reg.raised THEN [raised |-> "OSError", theme |-> None]
    ELSE IF ident \in DOMAIN reg.themes
         THEN [raised |-> "", theme |-> Some(reg.themes[ident])]
         ELSE [raised |-> "", theme |-> None]

\* get_theme(ident): ctx.app.theme_manager.themes[ident]
get_theme(reg, ident) ==
    IF reg.raised THEN [raised |-> "OSError", theme |-> None]
    ELSE IF ident \in DOMAIN reg.themes
         THEN [raised |-> "", theme |-> Some(reg.themes[ident])]
         ELSE [raised |-> "KeyError", theme |-> None]

\* the code point of a character
LowerSeq == <<"a","b","c","d","e","f","g","h","i","j","k","l","m",
              "n","o","p","q","r","s","t","u","v","w","x","y","z">>
UpperSeq == <<"A","B","C","D","E","F","G","H","I","J","K","L","M",
              "N","O","P","Q","R","S","T","U","V","W","X","Y","Z">>
DigitSeq == <<"0","1","2","3","4","5","6","7","8","9">>
PosIn(seq, c) == CHOOSE i \in 1..Len(seq) : seq[i] = c
ord(c) ==
    IF c = "\n" THEN 10
    ELSE IF c = "_" THEN 95
    ELSE IF c \in Digits THEN 47 + PosIn(DigitSeq, c)
    ELSE IF c \in UpperCase THEN 64 + PosIn(UpperSeq, c)
    ELSE 96 + PosIn(LowerSeq, c)

\* a < b for two strings: the comparison sorted() makes of two keys
StrLess(a, b) ==
    \/ /\ Len(a) < Len(b)
       /\ SubSeq(b, 1, Len(a)) = a
    \/ \E i \in 1..Len(a) :
          /\ i <= Len(b)
          /\ SubSeq(a, 1, i - 1) = SubSeq(b, 1, i - 1)
          /\ ord(a[i]) < ord(b[i])

\* sorted(values, key=attrgetter('identifier')) of a set of themes with
\* distinct identifiers
RECURSIVE SortedByIdentifier(_)
SortedByIdentifier(ts) ==
    IF ts = {} THEN <<>>
    ELSE LET least == CHOOSE t \in ts :
                         \A u \in ts \ {t} : StrLess(t.identifier, u.identifier)
         IN  <<least>> \o SortedByIdentifier(ts \ {least})

\* the themes from the greatest identifier to the least
RECURSIVE SortedDescending(_)
SortedDescending(ts) ==
    IF ts = {} THEN <<>>
    ELSE LET most == CHOOSE t \in ts :
                        \A u \in ts \ {t} : StrLess(u.identifier, t.identifier)
         IN  <<most>> \o SortedDescending(ts \ {most})

\* a listing in descending order
list_themes_descending(reg) ==
    IF reg.raised THEN [raised |-> "OSError", themes |-> <<>>]
    ELSE [raised |-> "",
          themes |-> SortedDescending({reg.themes[k] : k \in DOMAIN reg.themes})]

\* ThemeManager.list_themes(), and list(...) of it in get_themes_list()
list_themes(reg) ==
    IF reg.raised THEN [raised |-> "OSError", themes |-> <<>>]
    ELSE [raised |-> "",
          themes |-> SortedByIdentifier({reg.themes[k] : k \in DOMAIN reg.themes})]

\* get_themes_list()
GetThemesList ==
    /\ last = Idle
    /\ \E reg \in {themes} :
          /\ _themes' = Some(reg.themes)
          /\ last' = [op |-> "get_themes_list", result |-> list_themes(reg)]
    /\ nscans' = IF _themes = None THEN nscans + 1 ELSE nscans
    /\ UNCHANGED <<app, manager, fs, app_templates, THEME_PATHS, loaders, USING_BLUEPRINTS, running, nchanges>>

\* get_theme(ident)
GetTheme(ident) ==
    /\ last = Idle
    /\ IF app.theme_manager = None
       THEN \* current_app.theme_manager raises AttributeError
            /\ last' = [op |-> "get_theme", ident |-> ident,
                        result |-> [raised |-> "AttributeError", theme |-> None]]
            /\ UNCHANGED <<_themes, nscans>>
       ELSE /\ \E reg \in {themes} :
                  /\ _themes' = Some(reg.themes)
                  /\ last' = [op |-> "get_theme", ident |-> ident,
                              result |-> get_theme(reg, ident)]
            /\ nscans' = IF _themes = None THEN nscans + 1 ELSE nscans
    /\ UNCHANGED <<app, manager, fs, app_templates, THEME_PATHS, loaders, USING_BLUEPRINTS, running, nchanges>>

NextLookup ==
    \/ \E e \in {Entry(cool, CoolV1), Entry(cool, Foreign), Entry(aqua, Aqua),
                 Entry(Zen, ZenTheme)} :
          PutEntry(MoreDir, e)
    \/ \E root \in {ThemesDir, MoreDir}, name \in {cool, plain} : RemoveEntry(root, name)
    \/ SetThemePaths(<<MoreDir, ExtraDir>>)
    \/ Refresh
    \/ \E ident \in {cool, plain, notthis} : GetTheme(ident)
    \/ GetThemesList
    \/ Return

SpecLookup == InitRender /\ [][NextLookup]_vars

----------------------------------------------------------------------------
(* Theme objects constructed by the caller *)

\* os.path.abspath(path): a path that starts with '.' is relative to the
\* current directory
abspath(cwd, path) == IF path[1] = <<".">> THEN <<cwd>> \o Tail(path) ELSE path

\* Theme(path), called in the current directory cwd
NewTheme(cwd, path) ==
    /\ last = Idle
    /\ nscans < MaxScans
    /\ fs[cwd].kind = "dir"
    /\ \E p \in {abspath(cwd, path)} :
          last' = [op |-> "Theme", cwd |-> cwd, path |-> path,
                   raised |-> ~ThemeConstructs(p),
                   theme  |-> IF ThemeConstructs(p)
                              THEN Some(Object(Theme(p), nscans + 1, 1)) ELSE None,
                   static_path    |-> IF ThemeConstructs(p)
                                      THEN Some(static_path(Theme(p))) ELSE None,
                   templates_path |-> IF ThemeConstructs(p)
                                      THEN Some(templates_path(Theme(p))) ELSE None]
    /\ nscans' = nscans + 1
    /\ UNCHANGED <<app, manager, fs, app_templates, THEME_PATHS, loaders, USING_BLUEPRINTS, running,
                   _themes, nchanges>>

\* the names a caller asks for: the packaged directories, and two new ones
ThemeDirNames ==
    {cool, plain, notthis, noinfo, locked, garbled, noauthor, readme, fancy, lacking}

NextTheme ==
    \/ \E e \in {Entry(fancy, Fancy)}
               \cup {Entry(lacking, Lacking(key)) :
                        key \in {"name", "application", "identifier", "author", "doctype"}} :
          PutEntry(ThemesDir, e)
    \/ \E name \in {cool, fancy} : RemoveEntry(ThemesDir, name)
    \/ \E cwd \in {ThemesDir, MoreDir}, root \in {ThemesDir, <<".">>},
          name \in ThemeDirNames :
          NewTheme(cwd, <<root, name>>)
    \/ Return

SpecTheme == Init /\ [][NextTheme]_vars

----------------------------------------------------------------------------
(* The configured search paths, as a list and as a string *)

\* app.config['THEME_PATHS'] = value, or del app.config['THEME_PATHS']
SetConfig(value) ==
    /\ last = Idle
    /\ nchanges < MaxChanges
    /\ THEME_PATHS # value
    /\ THEME_PATHS' = value
    /\ nchanges' = nchanges + 1
    /\ UNCHANGED <<app, manager, fs, app_templates, loaders, USING_BLUEPRINTS, running, _themes, last, nscans>>

\* list(theme_paths_loader(app))
ThemePathsLoader ==
    /\ last = Idle
    /\ nscans < MaxScans
    /\ \E c \in {starchain(theme_paths_loader)} :
          last' = [op |-> "theme_paths_loader", raised |-> c.raised, yielded |-> c.themes]
    /\ nscans' = nscans + 1
    /\ UNCHANGED <<app, manager, fs, app_templates, THEME_PATHS, loaders, USING_BLUEPRINTS, running,
                   _themes, nchanges>>

\* 'm;t', 'm; t', ' m ;x;t', 'm:t', 't', '' and 'm;'
PathStrings ==
    {<<"m", ";", "t">>, <<"m", ";", " ", "t">>, <<" ", "m", " ", ";", "x", ";", "t">>,
     <<"m", ":", "t">>, <<"t">>, <<>>, <<"m", ";">>}

Configs == {None} \cup {Some(l) : l \in PathLists} \cup {Str(x) : x \in PathStrings}

NextPaths ==
    \/ \E value \in Configs : SetConfig(value)
    \/ \E e \in {Entry(plain, Plain2), Entry(cool, Foreign)} : PutEntry(MoreDir, e)
    \/ \E root \in {ThemesDir, MoreDir} : RemoveEntry(root, cool)
    \/ \E r \in {RootDir(<<>>), RootFile} : SetRoot(ExtraDir, r)
    \/ ThemePathsLoader
    \/ Return

SpecPaths == Init /\ [][NextPaths]_vars

----------------------------------------------------------------------------
(* Reads of the registry while the disk changes *)

NextFrame ==
    \/ PutEntry(MoreDir, Entry(cool, CoolV1))
    \/ RemoveEntry(MoreDir, cool)
    \/ \E r \in {RootAbsent, RootDir(PackagedThemes)} : SetRoot(ThemesDir, r)
    \/ Refresh
    \/ ReadThemes
    \/ \E ident \in {cool, plain} : GetTheme(ident)
    \/ GetThemesList
    \/ GetSource(FALSE, cool \o <<"/">> \o hello)
    \/ TemplateExists(Namespaced(cool, hello))
    \/ \E fallback \in BOOLEAN : RenderThemeTemplate(AsIdentifier(cool), hello, fallback)
    \/ RenderTemplate(Namespaced(cool, hello))
    \/ StaticFileUrl(AsIdentifier(cool), "style.css", FALSE)
    \/ GetStatic(cool, "style.css")
    \/ Return

SpecFrame == InitRender /\ [][NextFrame]_vars

----------------------------------------------------------------------------
(* A refresh() running in one thread while another thread looks themes up. *)
(* The disk does not change while it runs, so the themes the loaders will   *)
(* yield are known when it starts.                                          *)

\* a refresh that builds the new registry aside and leaves the old one in
\* place meanwhile
refresh_begin_keep(old) == IF old = None THEN EmptyDict ELSE old[1]

\* self._themes = {}
refresh_begin(old) == EmptyDict

\* if self.valid_app_id(theme.application): self.themes[theme.identifier] = theme
refresh_insert(reg, theme) ==
    IF valid_app_id(theme.application) THEN DictSet(reg, theme.identifier, theme)
    ELSE reg

\* refresh() is entered: the registry is replaced
RefreshBegin ==
    /\ running = None
    /\ last = Idle
    /\ nscans < MaxScans
    /\ \E c \in {starchain(LoaderPaths)} :
          running' = Some([all |-> c.themes, k |-> 0, raised |-> c.raised,
                           before |-> _themes])
    /\ _themes' = Some(refresh_begin(_themes))
    /\ nscans' = nscans + 1
    /\ UNCHANGED <<app, manager, fs, app_templates, THEME_PATHS, loaders,
                   USING_BLUEPRINTS, last, nchanges>>

\* one pass of the loop of refresh()
RefreshInsert ==
    /\ running # None
    /\ running[1].k < Len(running[1].all)
    /\ _themes' = Some(refresh_insert(_themes[1], running[1].all[running[1].k + 1]))
    /\ running' = Some([running[1] EXCEPT !.k = @ + 1])
    /\ UNCHANGED <<app, manager, fs, app_templates, THEME_PATHS, loaders,
                   USING_BLUEPRINTS, last, nchanges, nscans>>

\* the loop is over: refresh() returns, or raises what a loader has raised
RefreshEnd ==
    /\ running # None
    /\ running[1].k = Len(running[1].all)
    /\ running' = None
    /\ UNCHANGED <<app, manager, fs, app_templates, THEME_PATHS, loaders,
                   USING_BLUEPRINTS, _themes, last, nchanges, nscans>>

NextConcurrent ==
    \/ running = None /\ PutEntry(MoreDir, Entry(cool, CoolV1))
    \/ running = None /\ RemoveEntry(ThemesDir, plain)
    \/ running = None /\ Refresh
    \/ RefreshBegin
    \/ RefreshInsert
    \/ RefreshEnd
    \/ \E ident \in {cool, plain} : GetTheme(ident)
    \/ GetStatic(cool, "style.css")
    \/ \E fallback \in BOOLEAN : RenderThemeTemplate(AsIdentifier(cool), hello, fallback)
    \/ Return

SpecConcurrent == InitRender /\ [][NextConcurrent]_vars

----------------------------------------------------------------------------
(* A THEME_PATHS directory whose 'cool' is replaced by directories that are  *)
(* no valid theme of this application                                        *)

\* directories that are no candidate for 'cool', or a rejected one: of
\* another application, unparsable, named 'cool' and declaring 'plain',
\* named 'aqua' and declaring 'cool'
Rejected ==
    {Entry(cool, Foreign), Entry(cool, Garbled), Entry(cool, Plain2),
     Entry(aqua, Alias)}

NextOverride ==
    \/ \E e \in Rejected \cup {Entry(cool, CoolV2)} : PutEntry(MoreDir, e)
    \/ RemoveEntry(MoreDir, cool)
    \/ RemoveEntry(ThemesDir, cool)
    \/ Refresh
    \/ GetTheme(cool)
    \/ Return

SpecOverride == Init /\ [][NextOverride]_vars

----------------------------------------------------------------------------
(* Setting up the themes of an app *)

\* the number of the manager constructed next
NextId == IF manager = None THEN 1 ELSE manager[1].id + 1

\* self.loaders of a manager constructed with the argument loaders
LoadersOf(ldrs) ==
    IF ldrs = None \/ ldrs[1] = <<>> THEN DefaultLoaders ELSE ldrs[1]

\* ThemeManager(app, app_identifier, loaders) of flask_themes
NewThemeManager(appid, ldrs) ==
    /\ last = Idle
    /\ NextId <= MaxManagers
    /\ manager' = Some([id |-> NextId, package |-> "flask_themes",
                        app_identifier |-> appid])
    /\ app' = [app EXCEPT !.theme_manager = Some(NextId)]
    /\ _themes' = None
    /\ loaders' = LoadersOf(ldrs)
    /\ last' = [op |-> "ThemeManager", at |-> "done", raised |-> FALSE,
                manager |-> NextId, app_identifier |-> Some(appid)]
    /\ UNCHANGED <<fs, app_templates, THEME_PATHS, USING_BLUEPRINTS, running, nchanges, nscans>>

\* setup_themes(app, loaders, app_identifier)
SetupThemes(ldrs, appid) ==
    /\ last = Idle
    /\ NextId <= MaxManagers
    /\ manager' = Some([id |-> NextId, package |-> "flask_themes",
                        app_identifier |-> IF appid = None THEN app.import_name
                                           ELSE appid[1]])
    /\ app' = [app EXCEPT !.theme_manager = Some(NextId),
                          !.globals = @ \cup {"theme", "theme_static"},
                          !.modules = @ \cup {"_themes"}]
    /\ _themes' = None
    /\ loaders' = LoadersOf(ldrs)
    /\ last' = [op |-> "setup_themes", at |-> "done", raised |-> FALSE,
                manager |-> NextId, app_identifier |-> appid]
    /\ UNCHANGED <<fs, app_templates, THEME_PATHS, USING_BLUEPRINTS, running, nchanges, nscans>>

\* Fleem(app, loaders, app_identifier) of flask_fleem, made for an app that
\* has no manager, up to the refresh() that ends ThemeManager.__init__
Fleem(ldrs, appid) ==
    /\ last = Idle
    /\ manager = None
    /\ manager' = Some([id |-> NextId, package |-> "flask_fleem",
                        app_identifier |-> IF appid = None THEN app.import_name
                                           ELSE appid[1]])
    /\ _themes' = None
    /\ loaders' = LoadersOf(ldrs)
    /\ last' = [op |-> "Fleem", at |-> "refresh", raised |-> FALSE,
                manager |-> NextId, app_identifier |-> appid]
    /\ UNCHANGED <<app, fs, app_templates, THEME_PATHS, USING_BLUEPRINTS, running, nchanges,
                   nscans>>

\* the rest of Fleem(app): ThemeManager.__init__ refreshes the manager and
\* registers the assets of its themes, which succeeds or raises; then
\* init_app sets the globals and registers the blueprint
FleemInitApp ==
    /\ Pending
    /\ \E r \in {refresh}, registered \in BOOLEAN :
          /\ _themes' = Some(r.themes)
          /\ IF r.raised \/ ~registered
             THEN /\ app' = app
                  /\ last' = [last EXCEPT !.at = "done", !.raised = TRUE]
             ELSE /\ app' = [app EXCEPT !.globals = @ \cup {"theme", "theme_static"},
                                        !.modules = @ \cup {"_themes"}]
                  /\ last' = [last EXCEPT !.at = "done"]
    /\ nscans' = nscans + 1
    /\ UNCHANGED <<manager, fs, app_templates, THEME_PATHS, loaders, USING_BLUEPRINTS, running,
                   nchanges>>

InitSetup ==
    /\ fs = [r \in Roots |->
               IF r = ThemesDir THEN RootDir(PackagedThemes)
               ELSE IF r = MoreDir THEN RootDir(MoreThemes)
               ELSE RootAbsent]
    /\ app_templates = {hello, static_html}
    /\ THEME_PATHS \in {None, Some(<<MoreDir>>)}
    /\ loaders = DefaultLoaders
    /\ USING_BLUEPRINTS \in BOOLEAN
    /\ _themes = None
    /\ last = Idle
    /\ nchanges = 0
    /\ nscans = 0
    /\ app \in {Flask(n) : n \in {"testing", "tests"}}
    /\ manager = None
    /\ running = None

AppIdentifiers == {"testing", "nottesting"}

LoaderArgs == {None, Some(<<>>), Some(<<"theme_paths_loader">>)}

NextSetup ==
    \/ \E appid \in AppIdentifiers, ldrs \in LoaderArgs : NewThemeManager(appid, ldrs)
    \/ \E appid \in {None} \cup {Some(a) : a \in AppIdentifiers}, ldrs \in LoaderArgs :
          SetupThemes(ldrs, appid)
    \/ \E appid \in {None} \cup {Some(a) : a \in AppIdentifiers}, ldrs \in LoaderArgs :
          Fleem(ldrs, appid)
    \/ FleemInitApp
    \/ \E ident \in {cool, notthis} : GetTheme(ident)
    \/ \E themeid \in {cool, notthis} : GetStatic(themeid, "style.css")
    \/ \E as_blueprint \in BOOLEAN, template \in {cool \o <<"/">> \o hello, hello} :
          GetSource(as_blueprint, template)
    \/ Return

SpecSetup == InitSetup /\ [][NextSetup]_vars

----------------------------------------------------------------------------
(* Properties *)

Loaded   == _themes # None
Registry == _themes[1]

\* the entry called name of a search root is a directory whose info.json
\* parses and has the four required keys
ParsesOnDisk(root, name) ==
    /\ fs[root].kind = "dir"
    /\ \E i \in 1..Len(fs[root].entries) :
          /\ fs[root].entries[i].name = name
          /\ fs[root].entries[i].node.isdir
          /\ fs[root].entries[i].node.info.kind = "json"
          /\ {"name", "application", "identifier", "author"}
                \subseteq DOMAIN fs[root].entries[i].node.info.doc

\* the metadata of a directory that parses
DocOnDisk(root, name) ==
    LET i == CHOOSE j \in 1..Len(fs[root].entries) : fs[root].entries[j].name = name
    IN  fs[root].entries[i].node.info.doc

\* the theme object is what info.json of its directory says now
AsOnDisk(t) ==
    /\ ParsesOnDisk(t.path[1], t.path[2])
    /\ DocOnDisk(t.path[1], t.path[2]).name = t.name
    /\ DocOnDisk(t.path[1], t.path[2]).application = t.application
    /\ DocOnDisk(t.path[1], t.path[2]).identifier = t.identifier

\* identifier syntax [A-Za-z_][A-Za-z0-9_]*
IsIdentifier(b) ==
    /\ Len(b) >= 1
    /\ b[1] \notin Digits
    /\ \A i \in 1..Len(b) : b[i] \in LowerCase \cup UpperCase \cup Digits \cup {"_"}

\* a directory of a search root that holds a theme a loader must yield
YieldableOnDisk(root, name) ==
    /\ IsIdentifier(name)
    /\ ParsesOnDisk(root, name)
    /\ DocOnDisk(root, name).identifier = name

Max(S) == CHOOSE m \in S : \A n \in S : n <= m

\* C1: every theme of the registry has the application identifier of the
\* manager ("testing", compared as a string) and is stored under its own
\* identifier, in every state; and when refresh() returns, every theme of the
\* registry is a directory whose info.json parses and declares that
\* application: a directory that fails to parse or declares another
\* application is not in the registry.
C1_RegistryHoldsOnlyValidThemes ==
    /\ Loaded =>
          \A k \in DOMAIN Registry :
             /\ Registry[k].application = "testing"
             /\ Registry[k].identifier = k
    /\ last.op = "refresh" =>
          /\ \A k \in DOMAIN Registry : AsOnDisk(Registry[k])
          /\ \A root \in Roots, k \in DOMAIN Registry :
                (Registry[k].path = <<root, k>>) =>
                   /\ ParsesOnDisk(root, k)
                   /\ DocOnDisk(root, k).application = "testing"

\* a refresh has scanned a root in which 'cool' declares the application
\* "Testing", next to the unparsable and the foreign directories the packaged
\* root holds, and has registered the packaged 'cool'
C1_Witness ==
    /\ last.op = "refresh"
    /\ \E i \in 1..Len(last.paths) : last.paths[i] = MoreDir
    /\ IsDir(MoreDir, cool) /\ NodeAt(MoreDir, cool) = Foreign
    /\ IsDir(ThemesDir, garbled) /\ IsDir(ThemesDir, notthis)
    /\ cool \in DOMAIN Registry
    /\ notthis \notin DOMAIN Registry

\* C2: when refresh() ends, every identifier of the registry maps to the last
\* candidate yielded with that identifier and a valid application, and every
\* valid candidate's identifier is registered; with the default loaders a
\* valid 'cool' of a THEME_PATHS directory replaces the packaged 'cool', and
\* with the loaders in the other order the packaged one replaces it.
C2_LastYieldedWins ==
    last.op = "refresh" =>
       /\ \A k \in DOMAIN Registry :
             LET I == {i \in 1..Len(last.yielded) :
                          /\ last.yielded[i].identifier = k
                          /\ last.yielded[i].application = "testing"}
             IN  I # {} /\ Registry[k] = last.yielded[Max(I)]
       /\ \A i \in 1..Len(last.yielded) :
             last.yielded[i].application = "testing"
                => last.yielded[i].identifier \in DOMAIN Registry
       /\ ( /\ THEME_PATHS = Some(<<MoreDir>>)
            /\ YieldableOnDisk(ThemesDir, cool)
            /\ DocOnDisk(ThemesDir, cool).application = "testing"
            /\ YieldableOnDisk(MoreDir, cool)
            /\ DocOnDisk(MoreDir, cool).application = "testing" )
          => /\ cool \in DOMAIN Registry
             /\ loaders = DefaultLoaders => Registry[cool].path = <<MoreDir, cool>>
             /\ loaders # DefaultLoaders => Registry[cool].path = <<ThemesDir, cool>>

\* the default loaders have yielded the packaged 'cool' (v1) and then the
\* 'cool' of the THEME_PATHS directory (v2), and v2 is registered
C2_Witness ==
    /\ last.op = "refresh"
    /\ loaders = DefaultLoaders
    /\ \E i, j \in 1..Len(last.yielded) :
          /\ i < j
          /\ last.yielded[i].name = "Cool Blue v1"
          /\ last.yielded[j].name = "Cool Blue v2"
    /\ Registry[cool].name = "Cool Blue v2"

\* C3: load_themes_from over a listable search root does not raise, yields
\* no directory whose info.json is missing, unreadable, unparsable or lacks
\* a required key, and yields every directory that holds a valid theme.
C3_BadDirectoriesAreSkipped ==
    (last.op = "load_themes_from" /\ fs[last.path].kind = "dir") =>
       /\ ~last.raised
       /\ \A i \in 1..Len(last.yielded) :
             /\ last.yielded[i].path[1] = last.path
             /\ ParsesOnDisk(last.path, last.yielded[i].path[2])
       /\ \A j \in 1..Len(fs[last.path].entries) :
             YieldableOnDisk(last.path, fs[last.path].entries[j].name) =>
                \E i \in 1..Len(last.yielded) :
                   /\ last.yielded[i].path = <<last.path, fs[last.path].entries[j].name>>
                   /\ AsOnDisk(last.yielded[i])

\* the packaged root, with its four broken directories listed among the
\* valid ones, has been scanned and 'plain', listed after a broken one, is
\* yielded
C3_Witness ==
    /\ last.op = "load_themes_from"
    /\ last.path = ThemesDir
    /\ IsDir(ThemesDir, noinfo) /\ IsDir(ThemesDir, locked)
    /\ IsDir(ThemesDir, garbled) /\ IsDir(ThemesDir, noauthor)
    /\ IndexOf(fs[ThemesDir].entries, noinfo) < IndexOf(fs[ThemesDir].entries, plain)
    /\ \E i \in 1..Len(last.yielded) : last.yielded[i].identifier = plain

\* C4: load_themes_from yields exactly the directories whose name has the
\* identifier syntax [A-Za-z_][A-Za-z0-9_]*, whose metadata constructs and
\* whose declared identifier is the directory's name, whatever application
\* they declare.
C4_YieldsExactlyIdentifierDirs ==
    (last.op = "load_themes_from" /\ ~last.raised) =>
       {last.yielded[i].path : i \in 1..Len(last.yielded)}
          = {<<last.path, fs[last.path].entries[j].name>> :
                j \in {n \in 1..Len(fs[last.path].entries) :
                          YieldableOnDisk(last.path, fs[last.path].entries[n].name)}}

----------------------------------------------------------------------------
(* Properties of rendering and of the static route *)

\* the theme identifier a call was given, as an identifier or in a Theme
CalledTheme == IF last.theme.isTheme THEN last.theme.theme.identifier ELSE last.theme.id

\* '_themes/<theme>/<name>'
ThemedName(theme, name) ==
    <<"_","t","h","e","m","e","s","/">> \o theme \o <<"/">> \o name

\* the directory path holds templates/<name> on disk
TemplateOnDisk(path, name) ==
    /\ fs[path[1]].kind = "dir"
    /\ \E i \in 1..Len(fs[path[1]].entries) :
          /\ fs[path[1]].entries[i].name = path[2]
          /\ fs[path[1]].entries[i].node.isdir
          /\ name \in fs[path[1]].entries[i].node.templates

\* the theme the call names is registered and has the template the call names
ThemedTemplateExists ==
    /\ Loaded
    /\ CalledTheme \in DOMAIN Registry
    /\ TemplateOnDisk(Registry[CalledTheme].path, last.template_name)

RenderedFromApp == last.result.status = "ok" /\ last.result.source[1] = <<"app">>

C6_NotFoundPropagates ==
    (last.op = "render_theme_template" /\ ~last.raised) =>
       /\ ~last.fallback =>
             /\ last.attempts = <<ThemedName(CalledTheme, last.template_name)>>
             /\ ~RenderedFromApp
             /\ ~ThemedTemplateExists => last.result.status = "TemplateNotFound"
       /\ ( /\ last.fallback
            /\ ~ThemedTemplateExists
            /\ last.template_name \notin app_templates )
          => /\ last.result.status = "TemplateNotFound"
             /\ last.attempts = <<ThemedName(CalledTheme, last.template_name),
                                  last.template_name>>

\* C7: render_theme_template never ends in the usage error, and a template it
\* renders that asks for the active theme gets the identifier it was called
\* with (the identifier of the Theme object it was given), also when the
\* template is the application's, rendered by the fallback.
C7_ActiveThemeIsTheCalledTheme ==
    last.op = "render_theme_template" =>
       /\ last.result.status # "RuntimeError"
       /\ (last.result.status = "ok" /\ last.result.source[2] = static_html) =>
             /\ last.result.active = Some(CalledTheme)
             /\ last.result.url =
                   Some([endpoint |-> "_themes.static", themeid |-> CalledTheme,
                         filename |-> "style.css", external |-> FALSE])

\* called with a Theme object whose directory has lost its templates, the
\* call has fallen back to the application's static template, which got the
\* object's identifier as active theme
C7_Witness ==
    /\ last.op = "render_theme_template"
    /\ last.theme.isTheme
    /\ Len(last.attempts) = 2
    /\ last.result.source = <<<<"app">>, static_html>>
    /\ last.result.active = Some(cool)

\* C8: rendering an application template that calls a themed helper, with no
\* active-theme marker and under a name that is not namespaced, raises
\* RuntimeError; a helper that does return was called under a namespaced name
\* and uses the theme identifier of that name, or was called in a themed
\* render and uses the theme of that render.
C8_HelperNeedsThemedContext ==
    /\ (last.op = "render_template" /\ ~last.raised) =>
          /\ ( /\ last.template_name = static_html
               /\ static_html \in app_templates ) => last.result.status = "RuntimeError"
          /\ (last.result.status = "ok" /\ last.result.active # None) =>
                \E t \in {cool, plain, notthis} :
                   /\ SubSeq(last.template_name, 1, 8 + Len(t) + 1)
                         = <<"_","t","h","e","m","e","s","/">> \o t \o <<"/">>
                   /\ last.result.active = Some(t)
                   /\ last.result.url =
                         Some([endpoint |-> "_themes.static", themeid |-> t,
                               filename |-> "style.css", external |-> FALSE])
    /\ ( /\ last.op = "render_theme_template"
         /\ last.result.status = "ok"
         /\ last.result.source[2] = static_html ) =>
          last.result.active = Some(CalledTheme)

\* the application's static template, which calls theme_static, has been
\* rendered with render_template and the call has raised RuntimeError
C8_Witness ==
    /\ last.op = "render_template"
    /\ last.template_name = static_html
    /\ static_html \in app_templates
    /\ last.result.status = "RuntimeError"

\* C9: static_file_url(t, f) is the URL of the endpoint '_themes.static' for
\* themeid = t and filename = f; for a Theme object t is the object's
\* identifier; t need not be registered.
C9_StaticFileUrlReversesTheRoute ==
    last.op = "static_file_url" =>
       last.result = [endpoint |-> "_themes.static", themeid |-> CalledTheme,
                      filename |-> last.filename, external |-> last.external]

\* the URL of a file of 'notthis', which the loaded registry does not hold,
\* has been built
C9_Witness ==
    /\ last.op = "static_file_url"
    /\ last.theme = AsIdentifier(notthis)
    /\ Loaded
    /\ notthis \notin DOMAIN Registry
    /\ last.result.themeid = notthis

\* C10: a request to the static route during which the loaders do not raise
\* is answered 404 when the theme identifier is not in the registry, and a
\* file it serves is <path of the registered theme>/static/<filename>.
C10_StaticRouteServesRegisteredTheme ==
    (last.op = "static" /\ ~last.raised) =>
       /\ last.themeid \notin DOMAIN Registry => last.result.status = 404
       /\ last.result.status = 200 =>
             /\ last.themeid \in DOMAIN Registry
             /\ last.result.file
                   = <<Registry[last.themeid].path \o <<"static">>, last.filename>>
       /\ last.result.status \in {200, 404}

\* 'notthis' is a packaged directory with a static/style.css and is not
\* registered: the request for its style.css has been answered 404
C10_Witness ==
    /\ last.op = "static"
    /\ last.themeid = notthis
    /\ last.filename = "style.css"
    /\ IsDir(ThemesDir, notthis)
    /\ "style.css" \in NodeAt(ThemesDir, notthis).static
    /\ last.result.status = 404

----------------------------------------------------------------------------
(* Properties of the lookups *)

\* C11: get_theme(ident) returns the object the registry holds under ident,
\* the same object and not a copy; it raises KeyError when ident is not a key
\* of the registry, also when a directory of that name is on disk and declares
\* another application; and the call leaves a loaded registry as it was.
C11_GetThemeReadsTheRegistry ==
    [][ (last = Idle /\ last'.op = "get_theme" /\ last'.result.raised # "OSError") =>
           /\ _themes # None => _themes' = _themes
           /\ last'.ident \in DOMAIN _themes'[1] =>
                 /\ last'.result.raised = ""
                 /\ last'.result.theme = <<_themes'[1][last'.ident]>>
                 /\ last'.result.theme[1].oid = _themes'[1][last'.ident].oid
           /\ last'.ident \notin DOMAIN _themes'[1] =>
                 /\ last'.result.raised = "KeyError"
                 /\ last'.result.theme = <<>> ]_vars

\* 'notthis' is a packaged directory of another application: the lookup in
\* a loaded registry that holds 'cool' and 'plain' has raised KeyError
C11_Witness ==
    /\ last.op = "get_theme"
    /\ last.ident = notthis
    /\ IsDir(ThemesDir, notthis)
    /\ last.result.raised = "KeyError"
    /\ {cool, plain} \subseteq DOMAIN Registry

\* the name a themed loader splits: the name it is given, without the
\* '_themes/' prefix when the loader is the blueprint's
SplitName ==
    IF /\ last.as_blueprint
       /\ Len(last.template) >= 8
       /\ SubSeq(last.template, 1, 8) = <<"_","t","h","e","m","e","s","/">>
    THEN SubSeq(last.template, 9, Len(last.template))
    ELSE last.template

HasSeparator(name) == \E i \in 1..Len(name) : name[i] = "/"

\* the part of a name before its first '/'
ThemeSegment(name) ==
    LET i == CHOOSE j \in 1..Len(name) :
                name[j] = "/" /\ \A k \in 1..(j - 1) : name[k] # "/"
    IN  SubSeq(name, 1, i - 1)

\* the part of a name after its first '/'
PathSegment(name) == SubSeq(name, Len(ThemeSegment(name)) + 2, Len(name))

\* C12: the themed loader's get_source either returns a source or raises
\* TemplateNotFound, never KeyError or ValueError: it raises TemplateNotFound
\* for a name with no '/', for a theme identifier that is not registered and
\* for a registered theme without the template; and render_theme_template
\* with fallback and an identifier that is not registered renders the
\* application's template of that name.
C12_LookupMissesAreTemplateNotFound ==
    /\ (last.op = "get_source" /\ ~last.raised) =>
          /\ ~last.result.found => last.result.raised = "TemplateNotFound"
          /\ ~HasSeparator(SplitName) => ~last.result.found
          /\ (HasSeparator(SplitName) /\ ThemeSegment(SplitName) \notin DOMAIN Registry)
                => ~last.result.found
          /\ ( /\ HasSeparator(SplitName)
               /\ ThemeSegment(SplitName) \in DOMAIN Registry
               /\ ~TemplateOnDisk(Registry[ThemeSegment(SplitName)].path,
                                  PathSegment(SplitName)) )
                => ~last.result.found
    /\ (last.op = "render_theme_template" /\ ~last.raised) =>
          /\ last.result.status \in {"ok", "TemplateNotFound"}
          /\ ( /\ last.fallback
               /\ CalledTheme \notin DOMAIN Registry
               /\ last.template_name \in app_templates )
             => /\ last.result.status = "ok"
                /\ last.result.source = <<<<"app">>, last.template_name>>

\* the loader has been asked for hello of 'notthis', a packaged directory
\* that is not registered, and has raised TemplateNotFound
C12_Witness ==
    /\ last.op = "get_source"
    /\ last.template = notthis \o <<"/">> \o hello
    /\ IsDir(ThemesDir, notthis)
    /\ hello \in NodeAt(ThemesDir, notthis).templates
    /\ notthis \notin DOMAIN Registry
    /\ last.result.raised = "TemplateNotFound"

\* the characters in the order of their code points
Alphabet ==
    <<"\n", "0","1","2","3","4","5","6","7","8","9",
      "A","B","C","D","E","F","G","H","I","J","K","L","M",
      "N","O","P","Q","R","S","T","U","V","W","X","Y","Z", "_",
      "a","b","c","d","e","f","g","h","i","j","k","l","m",
      "n","o","p","q","r","s","t","u","v","w","x","y","z">>

Rank(c) == CHOOSE i \in 1..Len(Alphabet) : Alphabet[i] = c

\* a comes before b in the order of the strings
Before(a, b) ==
    \E n \in 0..Len(a) :
       /\ n <= Len(b)
       /\ \A i \in 1..n : a[i] = b[i]
       /\ \/ n = Len(a) /\ n < Len(b)
          \/ n < Len(a) /\ n < Len(b) /\ Rank(a[n + 1]) < Rank(b[n + 1])

\* C13: get_themes_list() (list_themes()) returns every theme of the
\* registry exactly once, each the object the registry holds, in ascending
\* order of identifier.
C13_ListIsTheSortedRegistry ==
    (last.op = "get_themes_list" /\ last.result.raised = "") =>
       /\ Len(last.result.themes) = Cardinality(DOMAIN Registry)
       /\ \A k \in DOMAIN Registry :
             \E i \in 1..Len(last.result.themes) :
                /\ last.result.themes[i] = Registry[k]
                /\ last.result.themes[i].oid = Registry[k].oid
       /\ \A i, j \in 1..Len(last.result.themes) :
             i < j => Before(last.result.themes[i].identifier,
                             last.result.themes[j].identifier)

\* a registry of four themes, which the loaders yielded in another order
\* than the list has, has been listed: 'Zen' first, then 'aqua', 'cool'
C13_Witness ==
    /\ last.op = "get_themes_list"
    /\ Len(last.result.themes) >= 4
    /\ last.result.themes[1].identifier = Zen
    /\ last.result.themes[2].identifier = aqua
    /\ last.result.themes[3].identifier = cool
    /\ IndexOf(fs[MoreDir].entries, cool) < IndexOf(fs[MoreDir].entries, Zen)

\* the theme is registered and its templates directory holds the template
RegisteredTemplate(theme, name) ==
    /\ theme \in DOMAIN Registry
    /\ TemplateOnDisk(Registry[theme].path, name)

\* C14: asked for the namespaced name of theme T and template P (with the
\* '_themes/' prefix for the blueprint's loader, 'T/P' for the module's), the
\* themed loader returns P of the templates directory of the theme registered
\* under T, and raises when there is none; template_exists('_themes/T/P') is
\* true exactly when T is registered and its templates directory holds P; and
\* template_exists of an application template's name is true whatever the
\* themes are.
C14_NamespacedNamesFollowTheRegistry ==
    /\ (last.op = "get_source" /\ ~last.raised) =>
          \A T \in {cool, plain, notthis}, P \in {hello, static_html} :
             (last.template = (IF last.as_blueprint THEN ThemedName(T, P)
                               ELSE T \o <<"/">> \o P))
             => /\ RegisteredTemplate(T, P) =>
                      /\ last.result.found
                      /\ last.result.owner = Registry[T].path
                      /\ last.result.name = P
                /\ ~RegisteredTemplate(T, P) => ~last.result.found
    /\ (last.op = "template_exists" /\ ~last.raised) =>
          /\ \A T \in {cool, plain, notthis}, P \in {hello, static_html} :
                last.templatename = ThemedName(T, P)
                   => (last.result <=> RegisteredTemplate(T, P))
          /\ last.templatename \in app_templates => last.result

----------------------------------------------------------------------------
(* Properties of the Theme constructor *)

\* the directory a call of Theme(path) reads: path itself, or the directory
\* of that name in the current directory
CalledRoot == IF last.path[1] = <<".">> THEN last.cwd ELSE last.path[1]

\* the info.json of the directory, when it is readable and parses
CalledDoc == DocOnDisk(CalledRoot, last.path[2])

\* C15: Theme(path) succeeds exactly when info.json of the directory is
\* readable, parses and has the keys name, application, identifier and
\* author; the object has the values of the keys the file has, doctype
\* 'html5' and empty options when the file has none, and static_path and
\* templates_path are <absolute path>/static and <absolute path>/templates.
C15_ThemeConstruction ==
    last.op = "Theme" =>
       /\ ~last.raised <=> ParsesOnDisk(CalledRoot, last.path[2])
       /\ ~last.raised =>
             /\ last.theme[1].path = <<CalledRoot, last.path[2]>>
             /\ last.theme[1].name = CalledDoc.name
             /\ last.theme[1].application = CalledDoc.application
             /\ last.theme[1].identifier = CalledDoc.identifier
             /\ last.theme[1].doctype =
                   (IF "doctype" \in DOMAIN CalledDoc THEN CalledDoc.doctype ELSE "html5")
             /\ "doctype" \notin DOMAIN CalledDoc => last.theme[1].doctype = "html5"
             /\ "options" \notin DOMAIN CalledDoc => DOMAIN last.theme[1].options = {}
             /\ "options" \in DOMAIN CalledDoc => last.theme[1].options = CalledDoc.options
             /\ "license" \notin DOMAIN CalledDoc => last.theme[1].license = <<>>
             /\ "description" \notin DOMAIN CalledDoc => last.theme[1].description = <<>>
             /\ last.static_path = <<<<CalledRoot, last.path[2], "static">>>>
             /\ last.templates_path = <<<<CalledRoot, last.path[2], "templates">>>>

\* a theme whose info.json has the four required keys only has been
\* constructed from a relative path
C15_Witness ==
    /\ last.op = "Theme"
    /\ last.path = <<<<".">>, cool>>
    /\ ~last.raised
    /\ DOMAIN CalledDoc = {"name", "application", "identifier", "author"}
    /\ last.theme[1].doctype = "html5"

----------------------------------------------------------------------------
(* Properties of the configured search paths *)

\* the pieces of a string between the separators, without the blanks at
\* their ends
RECURSIVE PiecesAt(_, _)
PiecesAt(str, seps) ==
    IF \E i \in 1..Len(str) : str[i] \in seps
    THEN LET i == CHOOSE j \in 1..Len(str) :
                     str[j] \in seps /\ \A k \in (j + 1)..Len(str) : str[k] \notin seps
         IN  PiecesAt(SubSeq(str, 1, i - 1), seps)
                \o PiecesAt(SubSeq(str, i + 1, Len(str)), seps)
    ELSE LET blank == {i \in 1..Len(str) : str[i] # " "}
         IN  IF blank = {} THEN <<<<>>>>
             ELSE <<SubSeq(str, CHOOSE i \in blank : \A j \in blank : i <= j,
                                CHOOSE i \in blank : \A j \in blank : j <= i)>>

\* what the loader yields for a list of paths, on the disk as it is: the
\* directories of the themes, in order, and whether a path cannot be listed
YieldOfList(paths) ==
    LET c == starchain(paths)
    IN  [raised |-> c.raised, dirs |-> [i \in 1..Len(c.themes) |-> c.themes[i].path]]

LastYield ==
    [raised |-> last.raised,
     dirs   |-> [i \in 1..Len(last.yielded) |-> last.yielded[i].path]]

\* C16 as stated: a string is split at ':' and at ';' into trimmed paths and
\* yields what the list of these paths yields; a list yields the themes of
\* its paths in order; an absent value yields nothing.
C16_StringSplitAtColonOrSemicolon ==
    last.op = "theme_paths_loader" =>
       /\ THEME_PATHS = <<>> => (~last.raised /\ last.yielded = <<>>)
       /\ Len(THEME_PATHS) = 1 => LastYield = YieldOfList(THEME_PATHS[1])
       /\ Len(THEME_PATHS) = 2 =>
             LastYield = YieldOfList(PiecesAt(THEME_PATHS[1], {":", ";"}))

\* C16, amended: a string is split at ';' only into trimmed paths and yields
\* what the list of these paths yields, a ':' being part of a path; a list
\* yields the themes of its paths in order; an absent value yields nothing.
C16_StringSplitAtSemicolon ==
    last.op = "theme_paths_loader" =>
       /\ THEME_PATHS = <<>> => (~last.raised /\ last.yielded = <<>>)
       /\ Len(THEME_PATHS) = 1 => LastYield = YieldOfList(THEME_PATHS[1])
       /\ Len(THEME_PATHS) = 2 =>
             LastYield = YieldOfList(PiecesAt(THEME_PATHS[1], {";"}))

\* the string 'm; t' has yielded the theme of the first directory and then
\* the themes of the second
C16_Witness ==
    /\ last.op = "theme_paths_loader"
    /\ THEME_PATHS = <<<<"m", ";", " ", "t">>, "basestring">>
    /\ ~last.raised
    /\ Len(last.yielded) >= 3
    /\ last.yielded[1].path[1] = MoreDir
    /\ last.yielded[2].path[1] = ThemesDir

----------------------------------------------------------------------------
(* Properties of repeated refreshes *)

\* what info.json said when the object was constructed
Metadata(t) ==
    [path |-> t.path, name |-> t.name, application |-> t.application,
     identifier |-> t.identifier, doctype |-> t.doctype, options |-> t.options]

----------------------------------------------------------------------------
(* Properties of the setup *)

SetupCalls == {"ThemeManager", "setup_themes", "Fleem"}

\* C18: when ThemeManager(app, id), setup_themes(app) or Fleem(app) has
\* returned, app.theme_manager is the manager it constructed; setup_themes
\* and Fleem have registered '_themes' and the globals 'theme' and
\* 'theme_static', and a manager set up without an application identifier
\* has the app's import name; and a get_theme, a static request or a
\* get_source of the themed loader made once a manager is set up does not
\* fail for want of app.theme_manager.
C18_SetupBindsTheManager ==
    /\ (last.op \in SetupCalls /\ last.at = "done" /\ ~last.raised) =>
          /\ app.theme_manager = <<last.manager>>
          /\ manager[1].id = last.manager
          /\ last.op # "ThemeManager" =>
                /\ "_themes" \in app.modules
                /\ {"theme", "theme_static"} \subseteq app.globals
                /\ last.app_identifier = <<>> =>
                      manager[1].app_identifier = app.import_name
    /\ (last.op = "get_theme" /\ manager # <<>>) =>
          last.result.raised # "AttributeError"
    /\ (last.op \in {"static", "get_source"} /\ manager # <<>> /\ last.raised) =>
          /\ last.op = "static" => app.theme_manager # <<>>
          /\ last.op = "get_source" => last.result.raised # "AttributeError"

----------------------------------------------------------------------------
(* Properties of rendering templates that include other templates *)

\* C19: a render_theme_template whose themed template exists makes one
\* attempt and does not render the application's template in its place; when
\* a template that the themed template includes is missing the call raises
\* TemplateNotFound; and no call makes more than two attempts, the second
\* one at the unqualified name.
C19_FallbackOnlyForTheThemedTemplate ==
    (last.op = "render_theme_template" /\ ~last.raised) =>
       /\ Len(last.attempts) \in {1, 2}
       /\ last.attempts[1] = ThemedName(CalledTheme, last.template_name)
       /\ Len(last.attempts) = 2 => last.attempts[2] = last.template_name
       /\ ThemedTemplateExists =>
             /\ Len(last.attempts) = 1
             /\ ~RenderedFromApp
             /\ ( /\ last.template_name = page
                  /\ other \notin app_templates ) =>
                   last.result.status = "TemplateNotFound"

----------------------------------------------------------------------------
(* Properties of the active theme *)

\* C20: active_theme returns the marker of the context when there is one,
\* whatever the name of the template; with no marker, under the name
\* '_themes/T/N' of an identifier T and a template name N it returns T; a
\* name theme() returns without fallback is '_themes/T/N' for the active
\* theme T; and the application's static_parent, rendered with no marker,
\* includes '_themes/plain/static', in which the active theme is 'plain'.
C20_ActiveThemePrecedence ==
    /\ last.op = "active_theme" =>
          /\ last.marker # <<>> =>
                /\ last.result.raised = ""
                /\ last.result.theme = last.marker[1]
          /\ last.marker = <<>> =>
                \A t \in Identifiers, n \in NamesOfTemplates :
                   last.name = ThemedName(t, n) =>
                      /\ IsIdentifier(t)
                      /\ last.result.raised = ""
                      /\ last.result.theme = t
    /\ (last.op = "theme" /\ ~last.fallback /\ last.result.raised = "") =>
          \E t \in Identifiers :
             /\ last.result.path = <<ThemedName(t, last.templatename)>>
             /\ last.marker # <<>> => t = last.marker[1]
             /\ last.marker = <<>> => last.name = ThemedName(t, static_html)
    /\ ( /\ last.op = "render_template"
         /\ last.template_name = static_parent
         /\ last.result.status = "ok" ) =>
          /\ last.result.source = <<<<"app">>, static_parent>>
          /\ last.result.active = <<plain>>
          /\ last.result.url =
                <<[endpoint |-> "_themes.static", themeid |-> plain,
                   filename |-> "style.css", external |-> FALSE]>>

\* with the marker 'cool' in the context of a template named
\* '_themes/plain/hello', the active theme is 'cool'
C20_Witness ==
    /\ last.op = "active_theme"
    /\ last.marker = <<cool>>
    /\ last.name = ThemedName(plain, hello)
    /\ last.result.raised = ""
    /\ last.result.theme = cool

----------------------------------------------------------------------------
(* Properties of the template global theme() *)

\* the context of the call has an active theme: a marker, or a namespaced name
HasActiveTheme ==
    \/ last.marker # <<>>
    \/ /\ Len(last.name) >= 8
       /\ SubSeq(last.name, 1, 8) = <<"_","t","h","e","m","e","s","/">>

\* the active theme of the context of the call
ActiveOfCall ==
    IF last.marker # <<>> THEN last.marker[1] ELSE ThemeSegment(DropFirst(last.name, 8))

\* C21: theme(N, fallback) raises RuntimeError when the context has no active
\* theme; with the active theme T it returns '_themes/T/N' when fallback is
\* disabled, and also when fallback is enabled and T is registered with a
\* templates/N on disk; it returns N otherwise; it returns no other name.
C21_ThemeGlobalResolvesTheName ==
    (last.op = "theme" /\ last.result.raised # "OSError") =>
       /\ ~HasActiveTheme =>
             /\ last.result.raised = "RuntimeError"
             /\ last.result.path = <<>>
       /\ HasActiveTheme =>
             /\ last.result.raised = ""
             /\ last.result.path \in {<<ThemedName(ActiveOfCall, last.templatename)>>,
                                      <<last.templatename>>}
             /\ ~last.fallback =>
                   last.result.path = <<ThemedName(ActiveOfCall, last.templatename)>>
             /\ last.fallback =>
                   IF RegisteredTemplate(ActiveOfCall, last.templatename)
                   THEN last.result.path
                           = <<ThemedName(ActiveOfCall, last.templatename)>>
                   ELSE last.result.path = <<last.templatename>>

----------------------------------------------------------------------------
(* Properties of the registry between refreshes *)

\* the calls that look themes up
Lookups ==
    {"themes", "get_theme", "get_themes_list", "get_source", "template_exists",
     "render_theme_template", "render_template", "static_file_url", "static"}

\* C22: a lookup leaves a loaded registry as it is, an empty one too; a
\* change of the disk or of the configuration leaves the registry as it is;
\* the registry changes only in a refresh() and in a lookup that finds it
\* not loaded; and the disk is scanned only then, once.
C22_RegistryChangesOnlyInRefresh ==
    [][ /\ (last'.op \in Lookups /\ _themes # <<>>) =>
              /\ _themes' = _themes
              /\ nscans' = nscans
        /\ (fs' # fs \/ THEME_PATHS' # THEME_PATHS \/ app_templates' # app_templates) =>
              /\ _themes' = _themes
              /\ nscans' = nscans
        /\ _themes' # _themes =>
              \/ last'.op = "refresh"
              \/ last'.op \in Lookups /\ _themes = <<>>
        /\ nscans' \in {nscans, nscans + 1}
        /\ last'.op = "refresh" => nscans' = nscans + 1 ]_vars

\* the registry is empty after a refresh of a disk without themes; 'cool' is
\* back on disk, valid, and get_theme('cool') has raised KeyError
C22_Witness ==
    /\ last.op = "get_theme"
    /\ last.ident = cool
    /\ last.result.raised = "KeyError"
    /\ _themes # <<>>
    /\ DOMAIN _themes[1] = {}
    /\ nscans = 1
    /\ <<MoreDir>> = THEME_PATHS[1]
    /\ YieldableOnDisk(MoreDir, cool)
    /\ DocOnDisk(MoreDir, cool).application = "testing"

----------------------------------------------------------------------------
(* Properties of a refresh that runs beside lookups *)

\* reg holds the valid themes among the first k of all, the last one of each
\* identifier
IsPrefixRegistry(reg, all, k) ==
    /\ DOMAIN reg = {all[i].identifier :
                        i \in {j \in 1..k : all[j].application = "testing"}}
    /\ \A id \in DOMAIN reg :
          reg[id] = all[Max({j \in 1..k : /\ all[j].identifier = id
                                           /\ all[j].application = "testing"})]

\* C23: while a refresh() runs, the registry holds the valid themes among
\* those the loop has passed and nothing of what it held before; a lookup
\* made meanwhile reads that registry: get_theme raises KeyError and the
\* static route answers 404 for a theme not inserted yet, a themed render
\* with fallback renders the application's template, and get_theme of an
\* inserted theme returns the version inserted last so far.
C23_LookupsSeeTheRefreshUnderWay ==
    [][ /\ running' # <<>> =>
              IsPrefixRegistry(_themes'[1], running'[1].all, running'[1].k)
        /\ (running # <<>> /\ last = Idle /\ last'.op = "get_theme") =>
              IF last'.ident \in DOMAIN _themes[1]
              THEN last'.result.theme = <<_themes[1][last'.ident]>>
              ELSE last'.result.raised = "KeyError"
        /\ ( /\ running # <<>> /\ last = Idle /\ last'.op = "static"
             /\ last'.themeid \notin DOMAIN _themes[1] ) =>
              last'.result.status = 404
        /\ ( /\ running # <<>> /\ last = Idle /\ last'.op = "render_theme_template"
             /\ last'.fallback
             /\ last'.theme.id \notin DOMAIN _themes[1]
             /\ last'.template_name \in app_templates ) =>
              last'.result.source = <<<<"app">>, last'.template_name>> ]_vars

\* a refresh is under way that found 'cool' registered and will register it
\* again, from a valid directory on disk; it has not inserted it yet, and
\* get_theme('cool') has raised KeyError
C23_Witness ==
    /\ running # <<>>
    /\ running[1].before # <<>>
    /\ cool \in DOMAIN running[1].before[1]
    /\ \E i \in (running[1].k + 1)..Len(running[1].all) :
          /\ running[1].all[i].identifier = cool
          /\ running[1].all[i].application = "testing"
          /\ YieldableOnDisk(running[1].all[i].path[1], cool)
    /\ cool \notin DOMAIN _themes[1]
    /\ last.op = "get_theme"
    /\ last.ident = cool
    /\ last.result.raised = "KeyError"

----------------------------------------------------------------------------
(* Properties of a refresh that fails *)

\* the position of the first search path that cannot be listed, 0 when
\* every one can
FirstUnlistable(paths) ==
    IF \E i \in 1..Len(paths) : fs[paths[i]].kind # "dir"
    THEN CHOOSE i \in 1..Len(paths) :
            /\ fs[paths[i]].kind # "dir"
            /\ \A j \in 1..(i - 1) : fs[paths[j]].kind = "dir"
    ELSE 0

\* C24: refresh() raises exactly when one of the search paths its loaders
\* give cannot be listed: it raises when a THEME_PATHS entry is absent or is
\* no directory, and an absent packaged 'themes' directory alone makes it
\* yield nothing and raise nothing; when it raises, the registry holds the
\* valid themes of the search paths before the first unlistable one, the
\* last of each identifier (of the directories named by an identifier), and
\* nothing else: no theme of a later search path, and no object the registry
\* held before the call.
C24_FailedRefreshIsNotUndone ==
    /\ last.op = "refresh" =>
          /\ last.raised <=> FirstUnlistable(last.paths) # 0
          /\ (THEME_PATHS # None /\ FirstUnlistable(THEME_PATHS[1]) # 0) =>
                last.raised
          /\ ( /\ fs[ThemesDir].kind = "absent"
               /\ THEME_PATHS = None \/ FirstUnlistable(THEME_PATHS[1]) = 0 ) =>
                /\ ~last.raised
                /\ \A k \in DOMAIN Registry : Registry[k].path[1] # ThemesDir
    /\ (last.op = "refresh" /\ last.raised) =>
          LET f == FirstUnlistable(last.paths)
              Valid(i, k) == /\ YieldableOnDisk(last.paths[i], k)
                             /\ DocOnDisk(last.paths[i], k).application = "testing"
          IN  /\ \A k \in DOMAIN Registry :
                    /\ \E i \in 1..(f - 1) : Registry[k].path[1] = last.paths[i]
                    /\ AsOnDisk(Registry[k])
                    /\ IsIdentifier(k) =>
                          /\ {i \in 1..(f - 1) : Valid(i, k)} # {}
                          /\ Registry[k].path =
                                <<last.paths[Max({i \in 1..(f - 1) : Valid(i, k)})], k>>
              /\ \A i \in 1..(f - 1) :
                    \A j \in 1..Len(fs[last.paths[i]].entries) :
                       Valid(i, fs[last.paths[i]].entries[j].name) =>
                          fs[last.paths[i]].entries[j].name \in DOMAIN Registry
              /\ last.before # <<>> =>
                    \A k \in DOMAIN Registry, j \in DOMAIN last.before[1] :
                       Registry[k].oid # last.before[1][j].oid

\* the registry held the 'cool' of the THEME_PATHS directory (v2); a refresh
\* has scanned the packaged directory, has failed on a search path that is
\* absent and has not come to that directory, listed after it, where 'cool'
\* is as valid as before: the packaged 'cool' (v1) is registered
C24_Witness ==
    /\ last.op = "refresh"
    /\ last.raised
    /\ last.before # <<>>
    /\ cool \in DOMAIN last.before[1]
    /\ last.before[1][cool].name = "Cool Blue v2"
    /\ last.paths = <<ThemesDir, ExtraDir, MoreDir>>
    /\ fs[ExtraDir].kind = "absent"
    /\ YieldableOnDisk(MoreDir, cool)
    /\ DocOnDisk(MoreDir, cool).name = "Cool Blue v2"
    /\ cool \in DOMAIN Registry
    /\ Registry[cool].name = "Cool Blue v1"

----------------------------------------------------------------------------
(* Properties of the override among candidates *)

\* the directory called name of a search root is a valid theme of the
\* application: it is yielded, and its application is the manager's
ValidOnDisk(root, name) ==
    /\ YieldableOnDisk(root, name)
    /\ DocOnDisk(root, name).application = "testing"

\* a directory of the root that is a rejected candidate for the identifier:
\* the directory of that name when it is no valid theme, or another
\* directory whose info.json declares the identifier
RejectedOnDisk(root, k) ==
    /\ fs[root].kind = "dir"
    /\ \E j \in 1..Len(fs[root].entries) :
          /\ fs[root].entries[j].node.isdir
          /\ \/ /\ fs[root].entries[j].name = k
                /\ ~ValidOnDisk(root, k)
             \/ /\ fs[root].entries[j].name # k
                /\ fs[root].entries[j].node.info.kind = "json"
                /\ "identifier" \in DOMAIN fs[root].entries[j].node.info.doc
                /\ fs[root].entries[j].node.info.doc.identifier = k

\* C25: when refresh() has returned, an identifier with a valid directory in
\* some search path is registered, and its theme is the valid directory of the
\* last search path that has one, whatever the later search paths hold under
\* that identifier: a directory of another application, one whose info.json
\* does not parse, one that declares another identifier, or a directory of
\* another name that declares this identifier.
C25_OverrideOnlyAmongValid ==
    (last.op = "refresh" /\ ~last.raised) =>
       \A k \in {cool, plain, aqua} :
          LET V == {i \in 1..Len(last.paths) : ValidOnDisk(last.paths[i], k)}
          IN  /\ IF V = {} THEN k \notin DOMAIN Registry
                 ELSE /\ k \in DOMAIN Registry
                      /\ Registry[k].path = <<last.paths[Max(V)], k>>
                      /\ AsOnDisk(Registry[k])
              /\ \A i, j \in 1..Len(last.paths) :
                    ( /\ i < j
                      /\ i = Max(V \cup {0})
                      /\ RejectedOnDisk(last.paths[j], k) ) =>
                       /\ k \in DOMAIN Registry
                       /\ Registry[k].path = <<last.paths[i], k>>

\* the default loaders have scanned the packaged directory, where 'cool' is
\* valid, and then the THEME_PATHS directory, where 'cool' declares the
\* application "Testing": the packaged 'cool' is registered
C25_Witness ==
    /\ last.op = "refresh"
    /\ ~last.raised
    /\ last.paths = <<ThemesDir, MoreDir>>
    /\ ValidOnDisk(ThemesDir, cool)
    /\ IsDir(MoreDir, cool) /\ NodeAt(MoreDir, cool) = Foreign
    /\ RejectedOnDisk(MoreDir, cool)
    /\ \E i \in 1..Len(last.yielded) : last.yielded[i].path = <<MoreDir, cool>>
    /\ cool \in DOMAIN Registry
    /\ Registry[cool].path = <<ThemesDir, cool>>

====
